---- MODULE Spec2Model ----
(***************************************************************************)
(* A model of the cosanostra Nostr relay (pkg/relay, pkg/storage,          *)
(* pkg/models): the hub (Relay.Run), one handler task per WebSocket        *)
(* connection (Relay.HandleConnection), the in-memory event store and the  *)
(* filter matcher.  Every socket write is a step of its own (entering      *)
(* WriteMessage, then returning from it), as is every access to shared     *)
(* state made outside a lock.                                              *)
(***************************************************************************)
EXTENDS Integers, Sequences, FiniteSets, TLC

(***************************************************************************)
(* Bounds of the model.                                                    *)
(***************************************************************************)
\* Inbound frames read over all connections together.
MaxFrames == 3

None == "none"

\* The connections (one Client value each, relay.go:58).
Clients == {"c1", "c2"}
\* Subscription ids the clients choose.
SubIDs == {"s1", "s2"}

(***************************************************************************)
(* Events (models.Event).  The result of the hash and signature checks of  *)
(* ValidateEvent is carried as the field valid.                            *)
(***************************************************************************)
E1 == [id |-> "a1", pubkey |-> "A", created_at |-> 10, kind |-> 1, valid |-> TRUE]
E2 == [id |-> "b2", pubkey |-> "B", created_at |-> 20, kind |-> 0, valid |-> TRUE]
\* E1 with its content changed and id and sig kept.
ETampered == [id |-> "a1", pubkey |-> "A", created_at |-> 11, kind |-> 1, valid |-> FALSE]

Events == {E1, E2, ETampered}
EventIDs == {e.id : e \in Events}

\* A validation that accepts every event.
ValidateNothing(event) == TRUE
ValidateEvent(event) == event.valid

(***************************************************************************)
(* Filters.  A filter on the wire is a JSON object whose fields may be     *)
(* missing: a field is Absent or Given(value).  json.Unmarshal decodes it  *)
(* into models.Filter, where a missing list is the nil slice and a missing *)
(* number is 0.                                                            *)
(***************************************************************************)
Absent == << >>
Given(v) == <<v>>
IsGiven(field) == Len(field) = 1

DecodeList(field) == IF IsGiven(field) THEN field[1] ELSE << >>
DecodeInt(field) == IF IsGiven(field) THEN field[1] ELSE 0

DecodeFilter(wf) ==
    [IDs     |-> DecodeList(wf.ids),
     Authors |-> DecodeList(wf.authors),
     Kinds   |-> DecodeList(wf.kinds),
     Since   |-> DecodeInt(wf.since),
     Until   |-> DecodeInt(wf.until),
     Limit   |-> DecodeInt(wf.limit)]

\* The linear searches of MatchesFilter.
InList(x, list) == \E i \in 1..Len(list) : list[i] = x

\* The since check with a filter that gives no since failing.
SinceRequired(event, filter) == filter.Since = 0 \/ event.created_at < filter.Since
SinceFails(event, filter) == filter.Since > 0 /\ event.created_at < filter.Since

UntilFails(event, filter) == filter.Until > 0 /\ event.created_at > filter.Until

MatchesFilter(event, filter) ==
    IF Len(filter.IDs) > 0 /\ ~InList(event.id, filter.IDs) THEN FALSE
    ELSE IF Len(filter.Authors) > 0 /\ ~InList(event.pubkey, filter.Authors) THEN FALSE
    ELSE IF Len(filter.Kinds) > 0 /\ ~InList(event.kind, filter.Kinds) THEN FALSE
    ELSE IF SinceFails(event, filter) THEN FALSE
    ELSE IF UntilFails(event, filter) THEN FALSE
    ELSE TRUE

\* The filter loop sending only if every filter matches.
SubMatchesAll(event, filters) == \A i \in 1..Len(filters) : MatchesFilter(event, filters[i])
\* The filter loop of BroadcastEvent: the first matching filter sends and breaks.
SubMatches(event, filters) == \E i \in 1..Len(filters) : MatchesFilter(event, filters[i])

(***************************************************************************)
(* Wire filters used by the REQ frames of the relay specification.         *)
(***************************************************************************)
WireFilter(ids, authors, kinds, since, until, limit) ==
    [ids |-> ids, authors |-> authors, kinds |-> kinds,
     since |-> since, until |-> until, limit |-> limit]

fAll == WireFilter(Absent, Absent, Absent, Absent, Absent, Absent)
fKind1 == WireFilter(Absent, Absent, Given(<<1>>), Absent, Absent, Absent)
fLimit1 == WireFilter(Absent, Absent, Absent, Absent, Absent, Given(1))
fNoKinds == WireFilter(Absent, Absent, Given(<< >>), Absent, Absent, Absent)

\* The REQ frames a client may send: a subscription id and a list of filters.
ReqFrames ==
    { <<"s1", <<fKind1>> >>, <<"s1", <<fAll, fKind1>> >>, <<"s1", <<fLimit1>> >>,
      <<"s1", <<fNoKinds>> >>, <<"s2", <<fAll>> >> }

VARIABLES
    clients,        \* relay.clients: the registered clients
    mutex,          \* relay.mutex: its holder, or None
    hub,            \* Relay.Run: [pc, client]
    events,         \* store.events: the stored events
    storeLock,      \* store.mutex: the writer inside Add, or None
    subscriptions,  \* client.subscriptions, per client: sub id -> [filters, gen, req]
    pc,             \* per connection: where its handler task is
    cur,            \* per connection: the frame being handled
    scan,           \* per connection: the REQ scan, [idx, results, gen]
    wr,             \* per connection task: the WriteMessage call it is inside
    bc,             \* the running BroadcastEvent: [todo, client, snap, seen]
    wire,           \* per connection: the frames written to its socket
    stalled,        \* connections whose peer stopped reading
    broken,         \* connections whose socket fails every write
    budget,         \* inbound frames still to come
    nextGen,        \* per connection: the number of its next subscription
    hist,           \* history (see InitRelay)
    match,          \* one call of MatchesFilter: [event, filter, done, result]
    call            \* one call of another function: its input, done and result

vars == <<clients, mutex, hub, events, storeLock, subscriptions, pc, cur, scan,
          wr, bc, wire, stalled, broken, budget, nextGen, hist, match, call>>

(***************************************************************************)
(* Values of the idle parts of the state.                                  *)
(***************************************************************************)
NoFrame == [type |-> None]
NoScan == [idx |-> 0, results |-> << >>, gen |-> 0]
NoWrite == [to |-> None]
NoBcast == [todo |-> {}, client |-> None, snap |-> {}, seen |-> {}]
NoSubs == [s \in {} |-> None]
HubIdle == [pc |-> "select", client |-> None]

NoMatch == [event |-> E1, filter |-> fAll, done |-> FALSE, result |-> FALSE]

\* History: for each client, the subscription it has asked for under each id,
\* named by the number of the REQ that was answered last, 0 after a CLOSE.
NoReg == [c \in Clients |-> [s \in SubIDs |-> 0]]

\* The relay after NewRelay, with no connection yet.  The history records,
\* for each event id, how often an event of that id was submitted, inserted
\* and broadcast, by which connection, and what the clients had subscribed
\* to when it was inserted; the connections whose register and whose
\* unregister Run has handled; and, for each connection, the frames it sent
\* that were rejected.
InitRelay ==
    /\ clients = {}
    /\ mutex = None
    /\ hub = HubIdle
    /\ events = {}
    /\ storeLock = None
    /\ subscriptions = [c \in Clients |-> NoSubs]
    /\ pc = [c \in Clients |-> "connect"]
    /\ cur = [c \in Clients |-> NoFrame]
    /\ scan = [c \in Clients |-> NoScan]
    /\ wr = [c \in Clients |-> NoWrite]
    /\ bc = NoBcast
    /\ wire = [c \in Clients |-> << >>]
    /\ stalled = {}
    /\ broken = {}
    /\ budget = MaxFrames
    /\ nextGen = [c \in Clients |-> 1]
    /\ hist = [submitted |-> [i \in EventIDs |-> 0],
               added |-> [i \in EventIDs |-> 0],
               bcasts |-> [i \in EventIDs |-> 0],
               bdone |-> {},
               regd |-> {},
               wfail |-> {},
               unregd |-> {},
               by |-> [i \in EventIDs |-> None],
               at |-> [i \in EventIDs |-> [reg |-> NoReg, gens |-> [c \in Clients |-> 1]]],
               reg |-> NoReg,
               bad |-> [c \in Clients |-> 0],
               invalid |-> [c \in Clients |-> 0],
               atAccept |-> [i \in EventIDs |-> {}]]

NoCall == [done |-> FALSE]

Init == InitRelay /\ match = NoMatch /\ call = NoCall

(***************************************************************************)
(* Frames written to a socket.  Three fields are history: gen names the    *)
(* subscription (the REQ that installed it) a frame was written for, req   *)
(* is the filter list of that REQ as it came on the wire, and live tells a *)
(* frame written by BroadcastEvent from one written by the scan of         *)
(* handleReqMessage.                                                       *)
(***************************************************************************)
EventFrame(sub, id, gen, live, req) ==
    [type |-> "EVENT", sub |-> sub, id |-> id, gen |-> gen, live |-> live, req |-> req]
EoseFrame(sub, gen) == [type |-> "EOSE", sub |-> sub, gen |-> gen]
\* An OK frame that reports the event as not accepted.
OkRejected(id) == [type |-> "OK", id |-> id, accepted |-> FALSE, message |-> ""]
OkFrame(id) == [type |-> "OK", id |-> id, accepted |-> TRUE, message |-> ""]
\* An error answered with an EOSE frame.
NoticeAsEose(err) == [type |-> "EOSE", sub |-> err, gen |-> 0]
\* ["NOTICE", "Error processing message: " + err.Error()]
NoticeFrame(err) == [type |-> "NOTICE", err |-> err]

\* The read loop ending on an error of handleMessage.
AfterErrorBreak == "unregister"
\* Where the read loop goes on after the NOTICE of an error: the next ReadMessage.
AfterError == "read"

\* A connection whose read loop has ended: its peer is gone.
Gone(c) == pc[c] \in {"unregister", "closed"}

\* A write handed to another task: the caller goes on at once.
EnterWriteDetached(t, to, frame, ret) ==
    /\ wr' = [wr EXCEPT ![t] = [to |-> to, frame |-> frame, ret |-> ret]]
    /\ pc' = [pc EXCEPT ![t] = ret]

\* conn.WriteMessage, entered by task t on the socket of connection `to`; the
\* task goes on at `ret` when the call returns.
EnterWrite(t, to, frame, ret) ==
    /\ wr' = [wr EXCEPT ![t] = [to |-> to, frame |-> frame, ret |-> ret]]
    /\ pc' = [pc EXCEPT ![t] = "write"]

\* conn.WriteMessage returns: the frame is on the socket, unless the peer is
\* gone or the socket broken; the error it returns then is dropped by every
\* caller, and the task goes on.  The history records the connections on
\* which a write failed while their read loop was running.
WriteReturns(t) ==
    /\ pc[t] = "write"
    /\ wr[t].to \notin stalled
    /\ wire' = [wire EXCEPT ![wr[t].to] =
                   IF Gone(wr[t].to) \/ wr[t].to \in broken THEN @ ELSE Append(@, wr[t].frame)]
    /\ hist' = [hist EXCEPT !.wfail =
                   IF wr[t].to \in broken /\ ~Gone(wr[t].to) THEN @ \cup {wr[t].to} ELSE @]
    /\ pc' = [pc EXCEPT ![t] = wr[t].ret]
    /\ wr' = [wr EXCEPT ![t] = NoWrite]
    /\ IF wr[t].ret = "read"
         THEN /\ cur' = [cur EXCEPT ![t] = NoFrame]
              /\ scan' = [scan EXCEPT ![t] = NoScan]
         ELSE UNCHANGED <<cur, scan>>
    /\ UNCHANGED <<match, call, clients, mutex, hub, events, storeLock, subscriptions, bc,
                   stalled, broken, budget, nextGen>>

(***************************************************************************)
(* Relay.Run and the two ends of HandleConnection.                         *)
(***************************************************************************)
\* relay.register <- client, received by the select of Run (unbuffered).
Register(c) ==
    /\ pc[c] = "connect"
    /\ hub.pc = "select"
    /\ hub' = [pc |-> "register", client |-> c]
    /\ pc' = [pc EXCEPT ![c] = "read"]
    /\ UNCHANGED <<match, call, clients, mutex, events, storeLock, subscriptions, cur, scan,
                   wr, bc, wire, stalled, broken, budget, nextGen, hist>>

\* Run, case register: Lock; clients[client] = true; Unlock.
RunRegister ==
    /\ hub.pc = "register"
    /\ mutex = None
    /\ clients' = clients \cup {hub.client}
    /\ hub' = HubIdle
    /\ hist' = [hist EXCEPT !.regd = @ \cup {hub.client}]
    /\ UNCHANGED <<match, call, mutex, events, storeLock, subscriptions, pc, cur, scan, wr,
                   bc, wire, stalled, broken, budget, nextGen>>

\* conn.ReadMessage returns an error: the read loop breaks.
ReadError(c) ==
    /\ pc[c] = "read"
    /\ pc' = [pc EXCEPT ![c] = "unregister"]
    /\ UNCHANGED <<match, call, clients, mutex, hub, events, storeLock, subscriptions, cur,
                   scan, wr, bc, wire, stalled, broken, budget, nextGen, hist>>

\* The deferred relay.unregister <- client, then conn.Close().
Unregister(c) ==
    /\ pc[c] = "unregister"
    /\ hub.pc = "select"
    /\ hub' = [pc |-> "unregister", client |-> c]
    /\ pc' = [pc EXCEPT ![c] = "closed"]
    /\ UNCHANGED <<match, call, clients, mutex, events, storeLock, subscriptions, cur, scan,
                   wr, bc, wire, stalled, broken, budget, nextGen, hist>>

\* Run, case unregister, without the delete.
RunUnregisterKeeping ==
    /\ hub.pc = "unregister"
    /\ mutex = None
    /\ hub' = HubIdle
    /\ hist' = [hist EXCEPT !.unregd = @ \cup {hub.client}]
    /\ UNCHANGED <<match, call, clients, mutex, events, storeLock, subscriptions, pc, cur,
                   scan, wr, bc, wire, stalled, broken, budget, nextGen>>
\* Run, case unregister: Lock; delete(clients, client); Unlock.
RunUnregister ==
    /\ hub.pc = "unregister"
    /\ mutex = None
    /\ clients' = clients \ {hub.client}
    /\ hub' = HubIdle
    /\ hist' = [hist EXCEPT !.unregd = @ \cup {hub.client}]
    /\ UNCHANGED <<match, call, mutex, events, storeLock, subscriptions, pc, cur, scan, wr,
                   bc, wire, stalled, broken, budget, nextGen>>

(***************************************************************************)
(* Client.AddSubscription, Client.RemoveSubscription.                      *)
(***************************************************************************)
\* RemoveSubscription deleting every entry.
RemoveAll(subs, id) == [s \in {} |-> None]
\* RemoveSubscription deleting nothing.
RemoveNothing(subs, id) == subs
RemoveSubscription(subs, id) == [s \in (DOMAIN subs) \ {id} |-> subs[s]]

\* AddSubscription leaving the map as RemoveSubscription left it.
AddSubscriptionDropped(subs, id, filters, gen, req) == subs
AddSubscription(subs, id, filters, gen, req) ==
    [s \in (DOMAIN subs) \cup {id} |->
        IF s = id THEN [filters |-> filters, gen |-> gen, req |-> req] ELSE subs[s]]

\* The entries of a subscription map, each named by its id and its installation.
Entries(subs) == {<<s, subs[s].gen>> : s \in DOMAIN subs}

DecodeFilters(wfs) == [i \in 1..Len(wfs) |-> DecodeFilter(wfs[i])]

(***************************************************************************)
(* EventStore.Add, EventStore.Query.                                       *)
(***************************************************************************)
\* Add and Query without the lock.
StoreLockIgnored == TRUE
\* store.mutex can be taken.
StoreLockFree == storeLock = None

\* Add without its existence check.
ExistsNever(id) == FALSE
\* _, exists := store.events[event.ID]
Exists(id) == \E e \in events : e.id = id

\* store.events[event.ID] = event
Stored(event) == {e \in events : e.id # event.id} \cup {event}

\* The orders in which a range over the map may produce its entries.
Orders(S) ==
    {o \in [1..Cardinality(S) -> S] : \A i, j \in 1..Cardinality(S) : o[i] = o[j] => i = j}

\* Query cut to the filter's limit.
QueryLimited(order, filter) ==
    LET all == SelectSeq(order, LAMBDA e : MatchesFilter(e, filter))
    IN  IF filter.Limit > 0 /\ Len(all) > filter.Limit
          THEN SubSeq(all, 1, filter.Limit)
          ELSE all
\* Query returning every event of the map.
QueryEverything(order, filter) == order
\* Query: the events of the map, in the order of the range, that match.
Query(order, filter) == SelectSeq(order, LAMBDA e : MatchesFilter(e, filter))

(***************************************************************************)
(* handleMessage: a frame is read and dispatched.                          *)
(***************************************************************************)
CanRead(c) == pc[c] = "read" /\ budget > 0

\* An inbound frame as it is parsed: json tells whether the text is a JSON
\* array, elems are its elements (json.RawMessage), each a string, a number
\* or an object.  A number decodes neither as a string nor as an Event or a
\* Filter.
Raw(json, elems) == [json |-> json, elems |-> elems]
Str(v) == [t |-> "string", v |-> v]
Num == [t |-> "number", v |-> "7"]
Obj == [t |-> "object", v |-> "{}"]
IsString(elem) == elem.t = "string"
IsObject(elem) == elem.t = "object"

\* The error handleEventMessage returns before it validates the event.
EventError(elems) ==
    IF Len(elems) < 2 THEN "invalid EVENT message"
    ELSE IF ~IsObject(elems[2]) THEN "invalid event data"
    ELSE None

\* The error handleReqMessage returns.
ReqError(elems) ==
    IF Len(elems) < 3 THEN "invalid REQ message"
    ELSE IF ~IsString(elems[2]) THEN "invalid subscription ID"
    ELSE IF \E i \in 3..Len(elems) : ~IsObject(elems[i]) THEN "invalid filter"
    ELSE None

\* The error handleCloseMessage returns.
CloseError(elems) ==
    IF Len(elems) < 2 THEN "invalid CLOSE message"
    ELSE IF ~IsString(elems[2]) THEN "invalid subscription ID"
    ELSE None

\* The error handleMessage returns, None if there is none.
HandleError(raw) ==
    IF ~raw.json THEN "invalid JSON"
    ELSE IF Len(raw.elems) = 0 THEN "empty message"
    ELSE IF ~IsString(raw.elems[1]) THEN "invalid message type"
    ELSE IF raw.elems[1].v = "EVENT" THEN EventError(raw.elems)
    ELSE IF raw.elems[1].v = "REQ" THEN ReqError(raw.elems)
    ELSE IF raw.elems[1].v = "CLOSE" THEN CloseError(raw.elems)
    ELSE "unknown message type"

\* A REQ frame whose subscription id is read: RemoveSubscription is called
\* before the filters are parsed.
ReachesRemove(raw) ==
    /\ raw.json
    /\ Len(raw.elems) >= 3
    /\ IsString(raw.elems[1]) /\ raw.elems[1].v = "REQ"
    /\ IsString(raw.elems[2])

\* A frame of a type the relay does not know.
UnknownType == Raw(TRUE, <<Str("AUTH")>>)

\* The frames handleMessage fails on, one for each of its errors.
BadFrames ==
    { Raw(FALSE, << >>), Raw(TRUE, << >>), Raw(TRUE, <<Num>>), UnknownType,
      Raw(TRUE, <<Str("EVENT")>>), Raw(TRUE, <<Str("EVENT"), Num>>),
      Raw(TRUE, <<Str("REQ"), Str("s1")>>), Raw(TRUE, <<Str("REQ"), Num, Obj>>),
      Raw(TRUE, <<Str("REQ"), Str("s1"), Obj, Num>>),
      Raw(TRUE, <<Str("CLOSE")>>), Raw(TRUE, <<Str("CLOSE"), Num>>) }

\* A frame handleMessage returns an error for: the error is answered with a
\* NOTICE and the loop goes on.  A REQ that fails on a filter has removed the
\* subscription of its id by then.
ReadBad(c, raw) ==
    /\ CanRead(c)
    /\ HandleError(raw) # None
    /\ budget' = budget - 1
    /\ subscriptions' = [subscriptions EXCEPT
                           ![c] = IF ReachesRemove(raw)
                                    THEN RemoveSubscription(@, raw.elems[2].v)
                                    ELSE @]
    /\ EnterWrite(c, c, NoticeFrame(HandleError(raw)), AfterError)
    /\ hist' = [hist EXCEPT !.bad[c] = @ + 1]
    /\ UNCHANGED <<match, call, clients, mutex, hub, events, storeLock, cur,
                   scan, bc, wire, stalled, broken, nextGen>>

\* handleEventMessage, an event ValidateEvent rejects.
ReadInvalidEvent(c, event) ==
    /\ CanRead(c)
    /\ ~ValidateEvent(event)
    /\ budget' = budget - 1
    /\ EnterWrite(c, c, NoticeFrame("invalid event: ID or signature verification failed"),
                  AfterError)
    /\ hist' = [hist EXCEPT !.invalid[c] = @ + 1]
    /\ UNCHANGED <<match, call, clients, mutex, hub, events, storeLock, subscriptions, cur,
                   scan, bc, wire, stalled, broken, nextGen>>

\* handleEventMessage, a valid event, up to the existence check of Add: Add
\* returns false for an id that is stored, and the handler returns nil.
ReadEvent(c, event) ==
    /\ CanRead(c)
    /\ ValidateEvent(event)
    /\ StoreLockFree
    /\ budget' = budget - 1
    /\ IF Exists(event.id)
         THEN UNCHANGED <<storeLock, pc, cur>>
         ELSE /\ storeLock' = c
              /\ pc' = [pc EXCEPT ![c] = "add"]
              /\ cur' = [cur EXCEPT ![c] = [type |-> "EVENT", event |-> event]]
    /\ hist' = [hist EXCEPT !.submitted[event.id] = @ + 1]
    /\ UNCHANGED <<match, call, clients, mutex, hub, events, subscriptions, scan, wr, bc,
                   wire, stalled, broken, nextGen>>

\* History: the subscriptions, held by registered clients whose peer is
\* connected, that have a filter, as it came on the wire, matching an event.
InstalledOn(d) == {<<d, x[1], x[2]>> : x \in Entries(subscriptions[d])}
MatchingNow(event) ==
    {x \in UNION {InstalledOn(d) : d \in {y \in clients : ~Gone(y)}} :
        \E k \in 1..Len(subscriptions[x[1]][x[2]].req) :
            MatchesFilter(event, DecodeFilter(subscriptions[x[1]][x[2]].req[k]))}

\* Add inserts, unlocks and returns true.
AddInsert(c) ==
    /\ pc[c] = "add"
    /\ events' = Stored(cur[c].event)
    /\ storeLock' = None
    /\ pc' = [pc EXCEPT ![c] = "bcast_lock"]
    /\ hist' = [hist EXCEPT
                  !.added[cur[c].event.id] = @ + 1,
                  !.by[cur[c].event.id] = c,
                  !.at[cur[c].event.id] = [reg |-> hist.reg, gens |-> nextGen],
                  !.atAccept[cur[c].event.id] = MatchingNow(cur[c].event)]
    /\ UNCHANGED <<match, call, clients, mutex, hub, subscriptions, cur, scan, wr, bc, wire,
                   stalled, broken, budget, nextGen>>

(***************************************************************************)
(* BroadcastEvent, run by the handler task of the connection that sent the *)
(* event.  relay.mutex is held from the Lock to the deferred Unlock; the   *)
(* subscription map of each client is ranged over without any lock of its  *)
(* own, so its owner may change it meanwhile: an entry removed before it   *)
(* is reached is not produced, an entry created during the range may be    *)
(* produced or skipped.                                                    *)
(***************************************************************************)
BcastLock(c) ==
    /\ pc[c] = "bcast_lock"
    /\ mutex = None
    /\ mutex' = c
    /\ bc' = [todo |-> clients, client |-> None, snap |-> {}, seen |-> {}]
    /\ pc' = [pc EXCEPT ![c] = "bcast"]
    /\ hist' = [hist EXCEPT !.bcasts[cur[c].event.id] = @ + 1]
    /\ UNCHANGED <<match, call, clients, hub, events, storeLock, subscriptions, cur, scan,
                   wr, wire, stalled, broken, budget, nextGen>>

\* for client := range relay.clients: the next client.
BcastClient(c) ==
    /\ pc[c] = "bcast"
    /\ bc.client = None
    /\ \E d \in bc.todo :
          bc' = [todo |-> bc.todo \ {d}, client |-> d,
                 snap |-> Entries(subscriptions[d]), seen |-> {}]
    /\ UNCHANGED <<match, call, clients, mutex, hub, events, storeLock, subscriptions, pc,
                   cur, scan, wr, wire, stalled, broken, budget, nextGen, hist>>

\* for subID, sub := range client.subscriptions: the next entry; one EVENT
\* frame is written if a filter of the subscription matches.
BcastSub(c) ==
    /\ pc[c] = "bcast"
    /\ bc.client # None
    /\ \E x \in Entries(subscriptions[bc.client]) \ bc.seen :
          /\ bc' = [bc EXCEPT !.seen = @ \cup {x}]
          /\ IF SubMatches(cur[c].event, subscriptions[bc.client][x[1]].filters)
               THEN EnterWrite(c, bc.client,
                               EventFrame(x[1], cur[c].event.id, x[2], TRUE,
                                          subscriptions[bc.client][x[1]].req), "bcast")
               ELSE UNCHANGED <<pc, wr>>
    /\ UNCHANGED <<match, call, clients, mutex, hub, events, storeLock, subscriptions, cur,
                   scan, wire, stalled, broken, budget, nextGen, hist>>

\* The range over the client's subscriptions ends: every entry it began with
\* and that is still there has been produced.
BcastClientDone(c) ==
    /\ pc[c] = "bcast"
    /\ bc.client # None
    /\ (bc.snap \cap Entries(subscriptions[bc.client])) \subseteq bc.seen
    /\ bc' = [bc EXCEPT !.client = None, !.snap = {}, !.seen = {}]
    /\ UNCHANGED <<match, call, clients, mutex, hub, events, storeLock, subscriptions, pc,
                   cur, scan, wr, wire, stalled, broken, budget, nextGen, hist>>

\* BroadcastEvent returning without the Unlock.
BcastDoneHolding(c) ==
    /\ pc[c] = "bcast"
    /\ bc.client = None
    /\ bc.todo = {}
    /\ bc' = NoBcast
    /\ EnterWrite(c, c, OkFrame(cur[c].event.id), "read")
    /\ hist' = [hist EXCEPT !.bdone = @ \cup {cur[c].event.id}]
    /\ UNCHANGED <<match, call, clients, mutex, hub, events, storeLock, subscriptions, cur,
                   scan, wire, stalled, broken, budget, nextGen>>
\* BroadcastEvent returns (Unlock) and handleEventMessage writes the OK frame.
BcastDone(c) ==
    /\ pc[c] = "bcast"
    /\ bc.client = None
    /\ bc.todo = {}
    /\ mutex' = None
    /\ bc' = NoBcast
    /\ EnterWrite(c, c, OkFrame(cur[c].event.id), "read")
    /\ hist' = [hist EXCEPT !.bdone = @ \cup {cur[c].event.id}]
    /\ UNCHANGED <<match, call, clients, hub, events, storeLock, subscriptions, cur, scan,
                   wire, stalled, broken, budget, nextGen>>

(***************************************************************************)
(* handleReqMessage, handleCloseMessage.                                   *)
(***************************************************************************)
\* REQ: client.RemoveSubscription(subscriptionID), and the filters are parsed.
ReadReq(c, sub, wfs) ==
    /\ CanRead(c)
    /\ budget' = budget - 1
    /\ subscriptions' = [subscriptions EXCEPT ![c] = RemoveSubscription(@, sub)]
    /\ cur' = [cur EXCEPT ![c] = [type |-> "REQ", sub |-> sub, filters |-> DecodeFilters(wfs),
                                   req |-> wfs]]
    /\ pc' = [pc EXCEPT ![c] = "req_add"]
    /\ UNCHANGED <<match, call, clients, mutex, hub, events, storeLock, scan, wr, bc, wire,
                   stalled, broken, nextGen, hist>>

\* An AddSubscription on a map of subscriptions that the clients share.
ReqAddShared(c) ==
    /\ pc[c] = "req_add"
    /\ subscriptions' = [d \in Clients |->
                            AddSubscription(subscriptions[d], cur[c].sub, cur[c].filters,
                                            nextGen[c], cur[c].req)]
    /\ scan' = [scan EXCEPT ![c] = [idx |-> 0, results |-> << >>, gen |-> nextGen[c]]]
    /\ nextGen' = [nextGen EXCEPT ![c] = @ + 1]
    /\ pc' = [pc EXCEPT ![c] = "req_scan"]
    /\ hist' = [hist EXCEPT !.reg[c][cur[c].sub] = nextGen[c]]
    /\ UNCHANGED <<match, call, clients, mutex, hub, events, storeLock, cur, wr, bc, wire,
                   stalled, broken, budget>>

\* client.AddSubscription(subscriptionID, filters)
ReqAdd(c) ==
    /\ pc[c] = "req_add"
    /\ subscriptions' = [subscriptions EXCEPT
                           ![c] = AddSubscription(@, cur[c].sub, cur[c].filters, nextGen[c],
                                                  cur[c].req)]
    /\ scan' = [scan EXCEPT ![c] = [idx |-> 0, results |-> << >>, gen |-> nextGen[c]]]
    /\ nextGen' = [nextGen EXCEPT ![c] = @ + 1]
    /\ pc' = [pc EXCEPT ![c] = "req_scan"]
    /\ hist' = [hist EXCEPT !.reg[c][cur[c].sub] = nextGen[c]]
    /\ UNCHANGED <<match, call, clients, mutex, hub, events, storeLock, cur, wr, bc, wire,
                   stalled, broken, budget>>

\* events := relay.eventStore.Query(filter), for the next filter of the REQ.
ReqQuery(c) ==
    /\ pc[c] = "req_scan"
    /\ scan[c].results = << >>
    /\ scan[c].idx < Len(cur[c].filters)
    /\ StoreLockFree
    /\ \E order \in Orders(events) :
          scan' = [scan EXCEPT ![c].idx = @ + 1,
                               ![c].results = Query(order, cur[c].filters[scan[c].idx + 1])]
    /\ UNCHANGED <<match, call, clients, mutex, hub, events, storeLock, subscriptions, pc,
                   cur, wr, bc, wire, stalled, broken, budget, nextGen, hist>>

\* The next event of the query's result is written.
ReqSend(c) ==
    /\ pc[c] = "req_scan"
    /\ scan[c].results # << >>
    /\ scan' = [scan EXCEPT ![c].results = Tail(@)]
    /\ EnterWrite(c, c, EventFrame(cur[c].sub, Head(scan[c].results).id, scan[c].gen, FALSE,
                                  cur[c].req),
                  "req_scan")
    /\ UNCHANGED <<match, call, clients, mutex, hub, events, storeLock, subscriptions, cur,
                   bc, wire, stalled, broken, budget, nextGen, hist>>

\* The scan ending after any filter.
ScanDoneEarly(c) == scan[c].results = << >>
\* The loop over the filters has ended, the events of the last query written.
ScanDone(c) == scan[c].results = << >> /\ scan[c].idx = Len(cur[c].filters)

\* All filters are scanned: EOSE.
ReqEose(c) ==
    /\ pc[c] = "req_scan"
    /\ ScanDone(c)
    /\ EnterWrite(c, c, EoseFrame(cur[c].sub, scan[c].gen), "read")
    /\ UNCHANGED <<match, call, clients, mutex, hub, events, storeLock, subscriptions, cur,
                   scan, bc, wire, stalled, broken, budget, nextGen, hist>>

\* A CLOSE frame is read and parsed.
ReadClose(c, sub) ==
    /\ CanRead(c)
    /\ budget' = budget - 1
    /\ cur' = [cur EXCEPT ![c] = [type |-> "CLOSE", sub |-> sub]]
    /\ pc' = [pc EXCEPT ![c] = "close"]
    /\ UNCHANGED <<match, call, clients, mutex, hub, events, storeLock, subscriptions, scan,
                   wr, bc, wire, stalled, broken, nextGen, hist>>

\* handleCloseMessage: client.RemoveSubscription(subscriptionID); no frame is
\* written, and the loop reads the next frame.
CloseRemove(c) ==
    /\ pc[c] = "close"
    /\ subscriptions' = [subscriptions EXCEPT ![c] = RemoveSubscription(@, cur[c].sub)]
    /\ cur' = [cur EXCEPT ![c] = NoFrame]
    /\ pc' = [pc EXCEPT ![c] = "read"]
    /\ hist' = [hist EXCEPT !.reg[c][cur[c].sub] = 0]
    /\ UNCHANGED <<match, call, clients, mutex, hub, events, storeLock, scan, wr, bc, wire,
                   stalled, broken, budget, nextGen>>

\* The peer of a connection has stopped reading and its buffers are full: the
\* write some task is inside does not return, nor does any later one.  One
\* peer does so.
Stall(c) ==
    /\ \E t \in Clients : pc[t] = "write" /\ wr[t].to = c
    /\ ~Gone(c)
    /\ stalled = {}
    /\ stalled' = stalled \cup {c}
    /\ UNCHANGED <<match, call, clients, mutex, hub, events, storeLock, subscriptions, pc,
                   cur, scan, wr, bc, wire, broken, budget, nextGen, hist>>

\* The socket of a connection breaks for writing while a task is inside a
\* write to it: that write and every later one return an error.  The read
\* loop of the connection ends when ReadMessage returns an error, which it
\* may do at any time or never.  One socket does so.
Break(c) ==
    /\ \E t \in Clients : pc[t] = "write" /\ wr[t].to = c
    /\ ~Gone(c)
    /\ broken = {}
    /\ broken' = broken \cup {c}
    /\ UNCHANGED <<match, call, clients, mutex, hub, events, storeLock, subscriptions, pc,
                   cur, scan, wr, bc, wire, stalled, budget, nextGen, hist>>

Next ==
    \/ RunRegister
    \/ RunUnregister
    \/ \E c \in Clients :
          \/ Register(c)
          \/ ReadError(c)
          \/ Unregister(c)
          \/ ReadBad(c, UnknownType)
          \/ \E e \in Events : ReadInvalidEvent(c, e) \/ ReadEvent(c, e)
          \/ AddInsert(c)
          \/ BcastLock(c)
          \/ BcastClient(c)
          \/ BcastSub(c)
          \/ BcastClientDone(c)
          \/ BcastDone(c)
          \/ \E r \in ReqFrames : ReadReq(c, r[1], r[2])
          \/ ReqAdd(c)
          \/ ReqQuery(c)
          \/ ReqSend(c)
          \/ ReqEose(c)
          \/ \E s \in SubIDs : ReadClose(c, s)
          \/ CloseRemove(c)
          \/ WriteReturns(c)

Spec == Init /\ [][Next]_vars

(***************************************************************************)
(* The relay with clients that send every kind of frame handleMessage      *)
(* fails on, next to one event, one invalid event, one REQ and one CLOSE.  *)
(***************************************************************************)
NextParse ==
    \/ RunRegister
    \/ RunUnregister
    \/ \E c \in Clients :
          \/ Register(c)
          \/ ReadError(c)
          \/ Unregister(c)
          \/ \E raw \in BadFrames : ReadBad(c, raw)
          \/ ReadInvalidEvent(c, ETampered)
          \/ ReadEvent(c, E1)
          \/ AddInsert(c)
          \/ BcastLock(c)
          \/ BcastClient(c)
          \/ BcastSub(c)
          \/ BcastClientDone(c)
          \/ BcastDone(c)
          \/ ReadReq(c, "s1", <<fAll>>)
          \/ ReqAdd(c)
          \/ ReqQuery(c)
          \/ ReqSend(c)
          \/ ReqEose(c)
          \/ ReadClose(c, "s1")
          \/ CloseRemove(c)
          \/ WriteReturns(c)

ParseSpec == Init /\ [][NextParse]_vars

(***************************************************************************)
(* The relay with peers that may stop reading.  The fairness is that of    *)
(* the Go scheduler: a task that can take a step of the program takes it;  *)
(* the peers owe the relay nothing (no frame has to arrive, no stalled     *)
(* socket has to drain).                                                   *)
(***************************************************************************)
Progress(c) ==
    \/ Register(c)
    \/ Unregister(c)
    \/ AddInsert(c)
    \/ BcastLock(c)
    \/ BcastClient(c)
    \/ BcastSub(c)
    \/ BcastClientDone(c)
    \/ BcastDone(c)
    \/ ReqAdd(c)
    \/ ReqQuery(c)
    \/ ReqSend(c)
    \/ ReqEose(c)
    \/ CloseRemove(c)
    \/ WriteReturns(c)

NextStall ==
    \/ Next
    \/ \E c \in Clients : Stall(c)

Fairness ==
    /\ WF_vars(RunRegister)
    /\ WF_vars(RunUnregister)
    /\ \A c \in Clients : WF_vars(Progress(c))

StallSpec == Init /\ [][NextStall]_vars /\ Fairness

(***************************************************************************)
(* The relay with sockets that may break for writing, its clients sending  *)
(* one event, one REQ and one frame of an unknown type, under the same     *)
(* fairness: the tasks of the relay take their steps, and nothing makes a  *)
(* ReadMessage return.                                                     *)
(***************************************************************************)
NextBreak ==
    \/ RunRegister
    \/ RunUnregister
    \/ \E c \in Clients :
          \/ Register(c)
          \/ ReadError(c)
          \/ Unregister(c)
          \/ ReadBad(c, UnknownType)
          \/ ReadEvent(c, E1)
          \/ AddInsert(c)
          \/ BcastLock(c)
          \/ BcastClient(c)
          \/ BcastSub(c)
          \/ BcastClientDone(c)
          \/ BcastDone(c)
          \/ ReadReq(c, "s1", <<fAll>>)
          \/ ReqAdd(c)
          \/ ReqQuery(c)
          \/ ReqSend(c)
          \/ ReqEose(c)
          \/ WriteReturns(c)
          \/ Break(c)

BreakSpec == Init /\ [][NextBreak]_vars /\ Fairness

(***************************************************************************)
(* MatchesFilter alone: one call on an event and a filter drawn from the   *)
(* sets below, the filter decoded from its wire form.                      *)
(***************************************************************************)
MatchIDs == {"a1", "b2"}
MatchAuthors == {"A", "B"}
MatchKinds == {0, 1}
MatchTimes == {0, 10, 15, 20}
MatchBounds == {0, 10, 20}

MatchEvents ==
    [id : MatchIDs, pubkey : MatchAuthors, created_at : MatchTimes,
     kind : MatchKinds, valid : {TRUE}]

\* Absent, given empty, given with one element, given with all.
OptLists(S) ==
    {Absent, Given(<< >>)} \cup {Given(<<x>>) : x \in {CHOOSE y \in S : TRUE}}
      \cup {Given(o) : o \in Orders(S)}
OptInts(S) == {Absent} \cup {Given(x) : x \in S}

MatchFilters ==
    [ids : OptLists(MatchIDs), authors : OptLists(MatchAuthors),
     kinds : OptLists(MatchKinds), since : OptInts(MatchBounds),
     until : OptInts(MatchBounds), limit : OptInts({1})]

MatchInit ==
    /\ InitRelay
    /\ match \in [event : MatchEvents, filter : MatchFilters,
                  done : {FALSE}, result : {FALSE}]
    /\ call = NoCall

MatchApply ==
    /\ ~match.done
    /\ match' = [match EXCEPT !.done = TRUE,
                              !.result = MatchesFilter(match.event, DecodeFilter(match.filter))]
    /\ UNCHANGED <<clients, mutex, hub, events, storeLock, subscriptions, pc,
                   cur, scan, wr, bc, wire, stalled, broken, budget, nextGen, hist, call>>

MatchSpec == MatchInit /\ [][MatchApply]_vars

(***************************************************************************)
(* The properties.                                                         *)
(***************************************************************************)
\* The positions of the socket of c that hold a frame satisfying P.
Positions(c, P(_)) == {i \in 1..Len(wire[c]) : P(wire[c][i])}

\* The EVENT frames written to c for subscription sub as installed by its
\* REQ number gen, carrying event id: by BroadcastEvent (live) or by the scan.
EventFramesFor(c, sub, gen, id, live) ==
    Positions(c, LAMBDA f : /\ f.type = "EVENT"
                            /\ f.sub = sub /\ f.gen = gen /\ f.id = id
                            /\ f.live = live)

\* C1: a subscription held by a registered client when a matching event is
\* accepted is sent that event exactly once: BroadcastEvent writes it at most
\* once, never in addition to the scan of the REQ, and it has been written
\* by the time the broadcast of the event has returned, if the subscription
\* is still held and the client still connected.
BroadcastExactness ==
    \A id \in EventIDs : \A x \in hist.atAccept[id] :
        LET byBroadcast == EventFramesFor(x[1], x[2], x[3], id, TRUE)
            byScan == EventFramesFor(x[1], x[2], x[3], id, FALSE)
        IN  /\ Cardinality(byBroadcast) <= 1
            /\ byBroadcast = {} \/ byScan = {}
            /\ (id \in hist.bdone /\ x \in InstalledOn(x[1]) /\ ~Gone(x[1]))
                  => (byBroadcast \cup byScan) # {}

\* C2: on every socket, the historical EVENT frames of a REQ precede its EOSE
\* frame, and the EVENT frames BroadcastEvent writes for the subscription
\* follow it.
EoseOrdering ==
    \A c \in Clients : \A i \in 1..Len(wire[c]) :
        LET f == wire[c][i]
            eoseBefore == \E j \in 1..(i - 1) :
                             /\ wire[c][j].type = "EOSE"
                             /\ wire[c][j].sub = f.sub
                             /\ wire[c][j].gen = f.gen
        IN  f.type = "EVENT" => (f.live <=> eoseBefore)

\* The tasks inside a WriteMessage call on the socket of c.
Writers(c) == {t \in Clients : pc[t] = "write" /\ wr[t].to = c}

\* C3: no two tasks are inside a write to the same socket at once.
WritesSerialized == \A c \in Clients : Cardinality(Writers(c)) <= 1

\* C4: a write of BroadcastEvent to a socket whose peer has stopped reading
\* blocks nobody: the broadcasting task can take its next step (the other
\* clients, the OK frame), Run can do a pending register or unregister, and
\* a connection that has stored an event can start its broadcast.
SlowClientBlocksNobody ==
    \A t \in Clients :
        (pc[t] = "write" /\ wr[t].to # t /\ wr[t].to \in stalled) =>
            /\ ENABLED Progress(t)
            /\ hub.pc = "register" => ENABLED RunRegister
            /\ hub.pc = "unregister" => ENABLED RunUnregister
            /\ \A d \in Clients : pc[d] = "bcast_lock" => ENABLED BcastLock(d)

\* The live EVENT frames on the socket of c.
LiveFrames(c) == Positions(c, LAMBDA f : f.type = "EVENT" /\ f.live)

\* C5: however often a valid event is submitted, it is inserted once,
\* BroadcastEvent runs for it at most once, and no subscription is sent it
\* twice by broadcasts.
DuplicateSuppression ==
    \A id \in EventIDs :
        /\ hist.added[id] <= 1
        /\ hist.bcasts[id] <= 1
        /\ \A c \in Clients : \A i, j \in LiveFrames(c) :
              (/\ wire[c][i].id = id /\ wire[c][j].id = id
               /\ wire[c][i].sub = wire[c][j].sub
               /\ wire[c][i].gen = wire[c][j].gen) => i = j

\* C5, its case: an event submitted twice, broadcast, and sent to a subscription.
DuplicateSubmitted ==
    \E id \in EventIDs :
        /\ hist.submitted[id] >= 2
        /\ id \in hist.bdone
        /\ \E c \in Clients : \E i \in LiveFrames(c) : wire[c][i].id = id

\* The step in which the Add called by the handler of c returns true.
AddTrue(c) == pc[c] = "add" /\ pc'[c] = "bcast_lock"
\* The step in which an Add of an event with this id returns false: the event
\* was submitted and no handler has moved.
AddFalse(id) == hist'.submitted[id] # hist.submitted[id] /\ pc' = pc
\* The step in which such an Add, called by c, finds no event with this id.
AddAbsent(c, id) ==
    hist'.submitted[id] # hist.submitted[id] /\ pc[c] = "read" /\ pc'[c] = "add"

\* C6: Add returns true, having inserted the event, iff no event with its id
\* is stored; otherwise it returns false and the store is as before.  Nothing
\* else changes the store, so of several Adds of one event one returns true.
AddIsInsertIfAbsent ==
    [][ /\ \A c \in Clients :
              /\ AddTrue(c) => /\ ~Exists(cur[c].event.id)
                               /\ events' = events \cup {cur[c].event}
              /\ \A id \in EventIDs : AddAbsent(c, id) => ~Exists(id)
        /\ \A id \in EventIDs : AddFalse(id) => (Exists(id) /\ events' = events)
        /\ events' # events => \E c \in Clients : AddTrue(c)
      ]_vars

\* C6, its case: the second Add of an event has returned false.
SecondAddReturnedFalse ==
    \E id \in EventIDs :
        /\ hist.submitted[id] = 2
        /\ hist.added[id] = 1
        /\ storeLock = None
        /\ \E e \in events : e.id = id

\* The elements of a sequence.
Range(seq) == {seq[i] : i \in 1..Len(seq)}

\* C7: a Query returns the stored events that match the filter, each once,
\* whatever the filter's limit.
QueryReturnsMatching ==
    [][ \A c \in Clients :
           (pc[c] = "req_scan" /\ scan'[c].idx = scan[c].idx + 1) =>
               LET filter == cur[c].filters[scan'[c].idx]
                   matching == {e \in events : MatchesFilter(e, filter)}
               IN  /\ Range(scan'[c].results) = matching
                   /\ Len(scan'[c].results) = Cardinality(matching)
      ]_vars

\* C7, its case: a Query has returned more events than the filter's limit.
QueryExceedsLimit ==
    \E c \in Clients :
        /\ pc[c] = "req_scan"
        /\ scan[c].idx >= 1
        /\ cur[c].filters[scan[c].idx].Limit > 0
        /\ Len(scan[c].results) > cur[c].filters[scan[c].idx].Limit

\* The limit of a REQ all of whose filters give one: their sum.
RECURSIVE SumLimits(_)
SumLimits(req) ==
    IF req = << >> THEN 0 ELSE DecodeInt(Head(req).limit) + SumLimits(Tail(req))
AllLimited(req) == \A i \in 1..Len(req) : IsGiven(req[i].limit)

\* The historical EVENT frames written to c by the scan of its REQ number gen.
ScanFrames(c, gen) ==
    Positions(c, LAMBDA f : f.type = "EVENT" /\ ~f.live /\ f.gen = gen)

\* C8: the scan of a REQ whose filters give a limit writes no more EVENT
\* frames than the limit.
ScanWithinLimit ==
    \A c \in Clients : \A i \in 1..Len(wire[c]) :
        LET f == wire[c][i]
        IN  (f.type = "EVENT" /\ ~f.live /\ AllLimited(f.req)) =>
                Cardinality(ScanFrames(c, f.gen)) <= SumLimits(f.req)

\* A predicate of a wire filter holds of an event: a list that is given
\* contains the event's field, a bound that is given (and not 0) is kept.
ListHolds(field, x) == IsGiven(field) => x \in Range(field[1])
SinceHolds(field, t) == (IsGiven(field) /\ field[1] > 0) => t >= field[1]
UntilHolds(field, t) == (IsGiven(field) /\ field[1] > 0) => t <= field[1]

\* C9: MatchesFilter is true iff every predicate that is present holds.
MatchIsConjunction ==
    match.done =>
        (match.result <=>
            /\ ListHolds(match.filter.ids, match.event.id)
            /\ ListHolds(match.filter.authors, match.event.pubkey)
            /\ ListHolds(match.filter.kinds, match.event.kind)
            /\ SinceHolds(match.filter.since, match.event.created_at)
            /\ UntilHolds(match.filter.until, match.event.created_at))

\* A wire filter with ids, authors or kinds given as the empty list.
HasEmptySet(wf) ==
    \/ wf.ids = Given(<< >>)
    \/ wf.authors = Given(<< >>)
    \/ wf.kinds = Given(<< >>)

\* C10: no EVENT frame, historical or live, is written for a subscription
\* each of whose filters has a predicate given as the empty set.
EmptySetMatchesNothing ==
    \A c \in Clients : \A i \in 1..Len(wire[c]) :
        wire[c][i].type = "EVENT" =>
            \E k \in 1..Len(wire[c][i].req) : ~HasEmptySet(wire[c][i].req[k])

\* The wire filters got from one by removing one predicate.
Removals(wf) ==
    { [wf EXCEPT !.ids = Absent], [wf EXCEPT !.authors = Absent],
      [wf EXCEPT !.kinds = Absent], [wf EXCEPT !.since = Absent],
      [wf EXCEPT !.until = Absent] }

\* C11: an event that matches a filter matches every filter got from it by
\* removing one predicate (ids, authors, kinds, since or until).
FilterMonotone ==
    (match.done /\ match.result) =>
        \A wf \in Removals(match.filter) : MatchesFilter(match.event, DecodeFilter(wf))

\* C11, its case: an event matches a filter that constrains all five fields.
MatchedAllPredicates ==
    /\ match.done /\ match.result
    /\ Len(DecodeList(match.filter.ids)) > 0
    /\ Len(DecodeList(match.filter.authors)) > 0
    /\ Len(DecodeList(match.filter.kinds)) > 0
    /\ DecodeInt(match.filter.since) > 0
    /\ DecodeInt(match.filter.until) > 0

\* Some filter of a REQ, as it came on the wire, matches the event.
AnyFilterMatches(event, req) ==
    \E k \in 1..Len(req) : MatchesFilter(event, DecodeFilter(req[k]))

\* The filters of a REQ that match the event.
MatchingFilters(event, req) ==
    {k \in 1..Len(req) : MatchesFilter(event, DecodeFilter(req[k]))}

\* C12: one BroadcastEvent writes at most one EVENT frame for a subscription,
\* and only if one of its filters matches the event; when it has returned,
\* every subscription with a matching filter that a registered client has
\* held since the event was inserted, the peer still connected, has got its
\* frame from it.
BroadcastOncePerSubscription ==
    \A e \in events :
        /\ \A c \in Clients : \A i \in LiveFrames(c) :
              wire[c][i].id = e.id =>
                  /\ AnyFilterMatches(e, wire[c][i].req)
                  /\ Cardinality(EventFramesFor(c, wire[c][i].sub, wire[c][i].gen,
                                                e.id, TRUE)) = 1
        /\ e.id \in hist.bdone =>
              \A x \in hist.atAccept[e.id] :
                  (/\ x \in InstalledOn(x[1])
                   /\ ~Gone(x[1])
                   /\ AnyFilterMatches(e, subscriptions[x[1]][x[2]].req)) =>
                      EventFramesFor(x[1], x[2], x[3], e.id, TRUE) # {}

\* C12, its case: a broadcast has returned, and a subscription two of whose
\* filters match the event has its frame.
BroadcastMatchedTwoFilters ==
    \E c \in Clients : \E i \in LiveFrames(c) : \E e \in events :
        /\ wire[c][i].id = e.id
        /\ e.id \in hist.bdone
        /\ Cardinality(MatchingFilters(e, wire[c][i].req)) >= 2

\* The handler of c has installed the subscription of the REQ it is handling.
Installed(c) ==
    \/ pc[c] = "req_scan"
    \/ pc[c] = "write" /\ wr[c].ret = "req_scan"
    \/ pc[c] = "write" /\ wr[c].frame.type = "EOSE"

\* C13: once a REQ has installed its subscription, the client holds under
\* its id the subscription of that REQ with the filters of that REQ and no
\* others, whether or not the id was in use; and an event inserted after a
\* REQ has replaced a subscription is never sent for the one replaced.
ReqReplaces ==
    /\ \A c \in Clients : Installed(c) =>
           /\ cur[c].sub \in DOMAIN subscriptions[c]
           /\ subscriptions[c][cur[c].sub].gen = scan[c].gen
           /\ subscriptions[c][cur[c].sub].req = cur[c].req
           /\ subscriptions[c][cur[c].sub].filters = DecodeFilters(cur[c].req)
    /\ \A c \in Clients : \A i \in LiveFrames(c) :
           wire[c][i].gen >= hist.at[wire[c][i].id].reg[c][wire[c][i].sub]

\* C13, its case: a client has sent two REQs with the id s1, and an event
\* inserted after the second was sent for the second.
SentToReplacement ==
    \E c \in Clients : \E i \in LiveFrames(c) :
        /\ wire[c][i].sub = "s1"
        /\ wire[c][i].gen = 2
        /\ hist.at[wire[c][i].id].reg[c]["s1"] = 2
        /\ "s2" \notin DOMAIN subscriptions[c]
        /\ hist.reg[c]["s2"] = 0

\* C14: an event inserted after the CLOSE of a subscription id was handled is
\* sent to the client under that id only for a subscription installed by a
\* REQ that came after the event was inserted.
ClosedStaysSilent ==
    \A c \in Clients : \A i \in LiveFrames(c) :
        LET f == wire[c][i]
        IN  hist.at[f.id].reg[c][f.sub] = 0 => f.gen >= hist.at[f.id].gens[c]

\* C14, its case: a client subscribed under s1 and closed s1; then another
\* client's event E1, which every subscription under s1 matches, was
\* inserted and broadcast, and the client, registered and connected, got
\* nothing.
ClosedThenBroadcast ==
    \E c \in Clients :
        /\ E1.id \in hist.bdone
        /\ hist.by[E1.id] # c
        /\ c \in clients /\ ~Gone(c)
        /\ \E i \in 1..Len(wire[c]) : wire[c][i] = EoseFrame("s1", 1)
        /\ hist.at[E1.id].reg[c]["s1"] = 0
        /\ hist.at[E1.id].gens[c] = 2
        /\ LiveFrames(c) = {}

\* C15: the handling of a CLOSE for a subscription id the client does not
\* hold writes no frame and changes neither the subscriptions of any client
\* nor the registered clients nor the store; the handler reads on.
CloseUnknownIsNoOp ==
    [][ \A c \in Clients :
           (/\ pc[c] = "close" /\ pc'[c] # "close"
            /\ cur[c].sub \notin DOMAIN subscriptions[c]) =>
               /\ pc'[c] = "read"
               /\ wr' = wr /\ wire' = wire
               /\ subscriptions' = subscriptions
               /\ clients' = clients /\ hub' = hub
               /\ events' = events
      ]_vars

\* C15, its case: a client that sent one REQ, for s2, and one CLOSE, for an id
\* it did not hold then, holds s2 and reads on.
ClosedUnknown ==
    \E c \in Clients :
        /\ pc[c] = "read"
        /\ \A d \in Clients \ {c} : pc[d] = "connect"
        /\ budget = MaxFrames - 2
        /\ nextGen[c] = 2
        /\ DOMAIN subscriptions[c] = {"s2"}
        /\ hist.bad[c] = 0 /\ hist.invalid[c] = 0
        /\ \A id \in EventIDs : hist.submitted[id] = 0

\* The step in which the handler of c reads a frame that is rejected: one
\* handleMessage fails on, or an EVENT whose event is invalid.
ReadsRejected(c) ==
    hist'.bad[c] # hist.bad[c] \/ hist'.invalid[c] # hist.invalid[c]

\* The handler of c is in its read loop.
InLoop(c) == pc[c] \notin {"connect", "unregister", "closed"}

\* C16: a frame that is rejected does not end the connection: the client
\* stays registered, the NOTICE is written and the handler reads the next
\* frame, which it can handle as any other; the read loop ends only when
\* ReadMessage fails.
ErrorsKeepConnection ==
    /\ [](\A c \in Clients :
             /\ InLoop(c) => (c \in clients \/ (hub.pc = "register" /\ hub.client = c))
             /\ (pc[c] = "read" /\ budget > 0) =>
                    /\ ENABLED ReadReq(c, "s1", <<fAll>>)
                    /\ ENABLED ReadClose(c, "s1")
                    /\ ENABLED ReadBad(c, UnknownType))
    /\ [][ \A c \in Clients :
              /\ ReadsRejected(c) =>
                    /\ clients' = clients /\ hub' = hub
                    /\ pc'[c] = "write" /\ wr'[c].to = c /\ wr'[c].frame.type = "NOTICE"
              /\ (pc[c] = "write" /\ wr[c].frame.type = "NOTICE" /\ pc'[c] # "write") =>
                    (pc'[c] = "read" /\ clients' = clients)
              /\ (InLoop(c) /\ ~InLoop(c)') =>
                    (pc[c] = "read" /\ budget' = budget /\ wire' = wire /\ wr' = wr)
       ]_vars

\* C16, its case: a connection sent a frame handleMessage failed on, then an
\* invalid event, then a valid event, which was stored and answered with OK.
RejectedThenAccepted ==
    \E c \in Clients :
        /\ c \in clients /\ pc[c] = "read"
        /\ Len(wire[c]) = 3
        /\ wire[c][1].type = "NOTICE" /\ hist.bad[c] = 1
        /\ wire[c][2].type = "NOTICE" /\ hist.invalid[c] = 1
        /\ wire[c][3] = OkFrame(E1.id)
        /\ E1 \in events

\* The errors of frames that are not JSON, have an unknown type or are not
\* of the structure of their type.
ParseErrors ==
    {"invalid JSON", "empty message", "invalid message type", "unknown message type",
     "invalid EVENT message", "invalid event data", "invalid REQ message",
     "invalid subscription ID", "invalid filter", "invalid CLOSE message"}

IsParseNotice(f) == f.type = "NOTICE" /\ f.err \in ParseErrors

\* The NOTICE frames for such errors written to c, or being written by its handler.
ParseNotices(c) ==
    Cardinality(Positions(c, IsParseNotice))
      + (IF pc[c] = "write" /\ IsParseNotice(wr[c].frame) THEN 1 ELSE 0)

\* C17: a frame handleMessage fails on is answered with one NOTICE frame to
\* its sender and with nothing else: the handler writes the NOTICE and then
\* reads the next frame.
OneNoticePerError ==
    /\ [](\A c \in Clients : ParseNotices(c) = hist.bad[c])
    /\ [][ \A c \in Clients :
              /\ hist'.bad[c] # hist.bad[c] =>
                    /\ pc'[c] = "write" /\ wr'[c].to = c
                    /\ IsParseNotice(wr'[c].frame)
                    /\ wr'[c].ret = "read"
                    /\ wire' = wire
              /\ (pc[c] = "write" /\ IsParseNotice(wr[c].frame) /\ pc'[c] # "write") =>
                    /\ pc'[c] = "read"
                    /\ wire' = [wire EXCEPT ![c] = Append(@, wr[c].frame)]
       ]_vars

\* C17, its case: a connection sent three frames, one that is not JSON, one
\* of an unknown type and a REQ with a filter that does not decode, and got
\* three NOTICE frames and nothing else.
ThreeErrorsThreeNotices ==
    \E c \in Clients :
        /\ pc[c] = "read"
        /\ hist.bad[c] = 3
        /\ Len(wire[c]) = 3
        /\ {wire[c][i].err : i \in 1..3} =
              {"invalid JSON", "unknown message type", "invalid filter"}

\* The NOTICE that answers an invalid event.
RejectionFrame == [type |-> "NOTICE", err |-> "invalid event: ID or signature verification failed"]

\* The rejections written to c, or being written by its handler.
Rejections(c) ==
    Cardinality(Positions(c, LAMBDA f : f = RejectionFrame))
      + (IF pc[c] = "write" /\ wr[c].frame = RejectionFrame THEN 1 ELSE 0)

\* C18: an EVENT frame with an invalid event is answered with one NOTICE to its
\* sender; it changes neither the store nor the hub, starts no broadcast and
\* is not answered with OK: no invalid event is stored, and no handler is on
\* the path of Add, BroadcastEvent and OK with one.
InvalidEventRejected ==
    /\ [](/\ \A e \in events : e.valid
           /\ \A c \in Clients :
                 /\ cur[c].type = "EVENT" => cur[c].event.valid
                 /\ Rejections(c) = hist.invalid[c])
    /\ [][ \A c \in Clients :
              hist'.invalid[c] # hist.invalid[c] =>
                  /\ events' = events /\ storeLock' = storeLock
                  /\ mutex' = mutex /\ bc' = bc
                  /\ hist'.added = hist.added /\ hist'.bcasts = hist.bcasts
                  /\ wire' = wire
                  /\ pc'[c] = "write"
                  /\ wr'[c] = [to |-> c, frame |-> RejectionFrame, ret |-> "read"]
       ]_vars

\* C18, its case: an invalid event was sent while another client, registered,
\* held a subscription; it was rejected, nothing is stored and the other
\* client got no EVENT frame.
InvalidEventSeen ==
    \E c \in Clients : \E d \in Clients \ {c} :
        /\ pc[c] = "read"
        /\ wire[c] = <<RejectionFrame>>
        /\ events = {}
        /\ d \in clients
        /\ "s1" \in DOMAIN subscriptions[d]
        /\ wire[d] = <<EoseFrame("s1", 1)>>

\* ["OK", id, true, ""]
OkTrue(id) == [type |-> "OK", id |-> id, accepted |-> TRUE, message |-> ""]

\* The OK frames for an event id written to c, or being written by its handler.
OkFrames(c, id) ==
    Cardinality(Positions(c, LAMBDA f : f.type = "OK" /\ f.id = id))
      + (IF pc[c] = "write" /\ wr[c].frame.type = "OK" /\ wr[c].frame.id = id
           THEN 1 ELSE 0)

\* The handler of c is between the insertion of an event and its OK frame.
Broadcasting(c) ==
    \/ pc[c] \in {"bcast_lock", "bcast"}
    \/ pc[c] = "write" /\ wr[c].frame.type = "EVENT" /\ wr[c].frame.live

\* C19: the connection whose EVENT frame inserted an event is answered with
\* one frame ["OK", id, true, ""]: none while its handler is in BroadcastEvent,
\* one from then on; the OK is written with the event stored and its
\* broadcast over; and no other connection gets an OK for the event.
OkAfterStoreAndBroadcast ==
    /\ \A c \in Clients : \A i \in 1..Len(wire[c]) :
           wire[c][i].type = "OK" => wire[c][i] = OkTrue(wire[c][i].id)
    /\ \A c \in Clients :
           (pc[c] = "write" /\ wr[c].frame.type = "OK") =>
               /\ wr[c].to = c
               /\ wr[c].frame = OkTrue(wr[c].frame.id)
               /\ \E e \in events : e.id = wr[c].frame.id
               /\ hist.bcasts[wr[c].frame.id] = 1
               /\ mutex # c
    /\ \A c \in Clients : \A id \in EventIDs :
           OkFrames(c, id) =
               IF hist.by[id] = c /\ ~(Broadcasting(c) /\ cur[c].event.id = id)
                 THEN 1 ELSE 0

\* C19, its case: an event was inserted, broadcast to a subscriber and
\* answered with OK, and a second submission of it was not answered.
OkWritten ==
    \E c \in Clients : \E d \in Clients \ {c} : \E id \in EventIDs :
        /\ wire[c] = <<OkTrue(id)>>
        /\ pc[c] = "read"
        /\ hist.submitted[id] = 2
        /\ \E i \in LiveFrames(d) : wire[d][i].id = id

\* The EOSE frames of the REQ number gen of c written to c, or being written.
EoseFrames(c, gen) ==
    Cardinality(Positions(c, LAMBDA f : f.type = "EOSE" /\ f.gen = gen))
      + (IF pc[c] = "write" /\ wr[c].frame.type = "EOSE" /\ wr[c].frame.gen = gen
           THEN 1 ELSE 0)

\* The handler of c is in the scan of its REQ number gen.
Scanning(c, gen) ==
    /\ scan[c].gen = gen
    /\ pc[c] = "req_scan" \/ (pc[c] = "write" /\ wr[c].ret = "req_scan")

\* C20: a REQ that has installed its subscription is answered with one EOSE
\* frame, carrying its subscription id: none while its scan runs, one from
\* then on; the EOSE is written when every filter has been queried and every
\* event found written, and no historical EVENT frame of the REQ follows it.
EoseOncePerReq ==
    /\ \A c \in Clients : \A gen \in 1..(nextGen[c] - 1) :
           EoseFrames(c, gen) = IF Scanning(c, gen) THEN 0 ELSE 1
    /\ \A c \in Clients :
           (pc[c] = "write" /\ wr[c].frame.type = "EOSE") =>
               /\ wr[c].to = c
               /\ wr[c].frame = EoseFrame(cur[c].sub, scan[c].gen)
               /\ scan[c].idx = Len(cur[c].req)
               /\ scan[c].results = << >>
    /\ \A c \in Clients : \A i, j \in 1..Len(wire[c]) :
           (/\ i < j
            /\ wire[c][i].type = "EOSE"
            /\ wire[c][j].type = "EVENT" /\ ~wire[c][j].live) =>
               wire[c][j].gen # wire[c][i].gen

\* C20, its case: a connection sent a REQ on an empty store and a second REQ
\* with the same subscription id, and got an EOSE for each.
EoseForEmptyAndReused ==
    \E c \in Clients :
        /\ events = {}
        /\ pc[c] = "read"
        /\ wire[c] = <<EoseFrame("s1", 1), EoseFrame("s1", 2)>>

\* C21: the registered clients are the connections whose register Run has
\* handled and whose unregister it has not; a connection whose unregister
\* Run has handled is in no running broadcast, neither to be visited nor
\* being visited, and no task is writing or will write a frame to it.
UnregisteredIsLeftAlone ==
    /\ [](/\ clients = hist.regd \ hist.unregd
           /\ \A c \in hist.unregd :
                 /\ c \notin clients
                 /\ c \notin bc.todo /\ bc.client # c
                 /\ \A t \in Clients : pc[t] = "write" => wr[t].to # c)
    /\ [][ \A c \in hist.unregd : wire'[c] = wire[c] ]_vars

\* C21, its case: a connection with a subscription that matches E1 was
\* unregistered, its subscription still in its map; a broadcast of E1 that
\* began afterwards has visited every client, and wrote nothing to it.
BroadcastAfterUnregister ==
    \E c \in Clients : \E d \in Clients \ {c} :
        /\ c \in hist.unregd
        /\ "s1" \in DOMAIN subscriptions[c]
        /\ mutex = d /\ pc[d] = "bcast"
        /\ cur[d].event = E1
        /\ bc.todo = {} /\ bc.client = None
        /\ LiveFrames(c) = {}

\* C22: a connection on which a write has failed is unregistered in the end,
\* whether or not its ReadMessage ever fails.
WriteErrorTearsDown ==
    \A c \in Clients : (c \in hist.wfail) ~> (c \in hist.unregd)

(***************************************************************************)
(* ValidateEvent in detail (models/utils.go), on events whose fields are   *)
(* given as they come on the wire.  A hex string is [bytes, upper, len]:   *)
(* the bytes it encodes, whether it is written with uppercase digits, and  *)
(* the number of its bytes.  SHA-256 is taken to be free of collisions: a  *)
(* digest is [sha256 |-> the bytes hashed].  A signature is the pair of    *)
(* the digest signed and the key that signed it.                           *)
(***************************************************************************)
\* The longest content string.
MaxContent == 1

\* The characters of a content string: a letter, a quote, an HTML character,
\* a non-ASCII letter, the line feed, the backspace, the control character
\* 0x01, and the line separator U+2028.
Chars == {"a", "quote", "<", "U+00E9", "LF", "BS", "0x01", "U+2028"}

\* encoding/json, the encoding of one character of a string by an Encoder
\* with SetEscapeHTML(false): the short escapes, \u00XX for the other
\* controls, \u2028 and \u2029 always, every other character as it is.
JsonEscape(ch) ==
    CASE ch = "quote" -> "\\quote"
      [] ch = "LF" -> "\\n"
      [] ch = "BS" -> "\\b"
      [] ch = "0x01" -> "\\u0001"
      [] ch = "U+2028" -> "\\u2028"
      [] OTHER -> ch

JsonString(str) == [i \in 1..Len(str) |-> JsonEscape(str[i])]

\* event.Tags, a [][]string: nil (no tags in the JSON object, or null)
\* encodes as null, a list as a list.
JsonTags(tags) == [null |-> tags.nil, elems |-> tags.list]

\* escapeContentField returns its argument.
escapeContentField(content) == content

\* SerializeEvent: [0, pubkey, created_at, kind, tags, content] through the
\* JSON encoder.
SerializeEvent(event) ==
    <<0, event.pubkey, event.created_at, event.kind, JsonTags(event.tags),
      JsonString(escapeContentField(event.content))>>

Sha256(bytes) == [sha256 |-> bytes]

\* hex.EncodeToString, of the 32 bytes of a digest: lowercase.
HexEncode(bytes) == [bytes |-> bytes, upper |-> FALSE, len |-> 32]
\* hex.DecodeString takes digits of either case.
HexDecode(hex) == hex.bytes

\* schnorr.ParsePubKey: the 32 bytes are the x coordinate of a point.
ParsePubKey(bytes) == bytes # "not on curve"

\* signature.Verify(hash, pubKey)
Verify(sig, hash, key) == sig.signs = hash /\ sig.by = key

\* ValidateEvent, step by step.
ValidateEventSteps(event) ==
    LET computedID == HexEncode(Sha256(SerializeEvent(event)))
    IN  IF computedID # event.id THEN FALSE
        ELSE IF event.pubkey.len # 32 THEN FALSE
        ELSE IF ~ParsePubKey(HexDecode(event.pubkey)) THEN FALSE
        ELSE IF event.sig.len # 64 THEN FALSE
        ELSE Verify(HexDecode(event.sig), HexDecode(event.id), HexDecode(event.pubkey))

\* The serialization of NIP-01, which the clients that sign events use: as
\* SerializeEvent, but U+2028 is written as it is.
CanonicalEscape(ch) == IF ch = "U+2028" THEN ch ELSE JsonEscape(ch)
CanonicalSerialization(event) ==
    <<0, event.pubkey, event.created_at, event.kind, JsonTags(event.tags),
      [i \in 1..Len(event.content) |-> CanonicalEscape(event.content[i])]>>

\* The events of the validation specification: the fields that are hashed,
\* then an id, then a signature.
ValPubKeys ==
    {[bytes |-> b, upper |-> u, len |-> 32] : b \in {"K", "not on curve"}, u \in BOOLEAN}
      \cup {[bytes |-> "K", upper |-> FALSE, len |-> 31]}
ValContents == UNION {[1..n -> Chars] : n \in 0..MaxContent}
ValTags ==
    {[nil |-> TRUE, list |-> << >>], [nil |-> FALSE, list |-> << >>],
     [nil |-> FALSE, list |-> << <<"e", "a1">> >>]}
ValUnsigned ==
    [pubkey : ValPubKeys, created_at : {10}, kind : {1}, tags : ValTags,
     content : ValContents]

\* The ids a sender may give: the digest of the event as SerializeEvent or as
\* NIP-01 writes it, or the digest of another event; in either case of hex.
ValDigests(u) ==
    {Sha256(SerializeEvent(u)), Sha256(CanonicalSerialization(u)),
     Sha256(SerializeEvent([u EXCEPT !.created_at = 11]))}
ValIds(u) == {[bytes |-> d, upper |-> up, len |-> 32] : d \in ValDigests(u), up \in BOOLEAN}

\* The signatures a sender may give: of the id or of another digest, by the
\* key of the event or by another, of 64 bytes or cut short.
ValSigs(u, id) ==
    {[bytes |-> [signs |-> d, by |-> k], upper |-> up, len |-> n] :
        d \in {id.bytes, Sha256(SerializeEvent([u EXCEPT !.created_at = 12]))},
        k \in {u.pubkey.bytes, "L"}, up \in BOOLEAN, n \in {64, 63}}

Signed(u, id, sig) ==
    [id |-> id, pubkey |-> u.pubkey, created_at |-> u.created_at, kind |-> u.kind,
     tags |-> u.tags, content |-> u.content, sig |-> sig]

ValEvents ==
    UNION {UNION {{Signed(u, id, sig) : sig \in ValSigs(u, id)} : id \in ValIds(u)} :
              u \in ValUnsigned}

ValInit ==
    /\ InitRelay
    /\ match = NoMatch
    /\ call \in [event : ValEvents, done : {FALSE}, result : {FALSE}, stored : {FALSE}]

\* handleEventMessage on an empty store: the event is validated, and stored
\* if it is valid.
ValApply ==
    /\ ~call.done
    /\ call' = [call EXCEPT !.done = TRUE,
                            !.result = ValidateEventSteps(call.event),
                            !.stored = ValidateEventSteps(call.event)]
    /\ UNCHANGED <<clients, mutex, hub, events, storeLock, subscriptions, pc,
                   cur, scan, wr, bc, wire, stalled, broken, budget, nextGen, hist, match>>

ValidateSpec == ValInit /\ [][ValApply]_vars

\* C23: a stored event has passed ValidateEvent, its id is the SHA-256 of its
\* canonical serialization, and its signature is one of that id by its key.
StoredIsCanonicalAndSigned ==
    (call.done /\ call.stored) =>
        /\ call.result
        /\ HexDecode(call.event.id) = Sha256(CanonicalSerialization(call.event))
        /\ HexDecode(call.event.sig).signs = HexDecode(call.event.id)
        /\ HexDecode(call.event.sig).by = HexDecode(call.event.pubkey)

\* C24: the id, pubkey and sig of a stored event are lowercase hex of 32, 32
\* and 64 bytes.
StoredHexIsLowercase ==
    (call.done /\ call.stored) =>
        /\ ~call.event.id.upper /\ call.event.id.len = 32
        /\ ~call.event.pubkey.upper /\ call.event.pubkey.len = 32
        /\ ~call.event.sig.upper /\ call.event.sig.len = 64

ZeroEvent == [id |-> "", pubkey |-> "", created_at |-> 0, kind |-> 0, valid |-> FALSE]

ServedFrames ==
    { Raw(FALSE, << >>), Raw(TRUE, << >>), Raw(TRUE, <<Num>>), UnknownType,
      Raw(TRUE, <<Str("EVENT")>>), Raw(TRUE, <<Str("EVENT"), Num>>),
      Raw(TRUE, <<Str("EVENT"), Obj>>),
      Raw(TRUE, <<Str("REQ"), Str("s1"), Obj>>), Raw(TRUE, <<Str("CLOSE"), Str("s1")>>) }

ServedNotice(text) == [type |-> "NOTICE", err |-> text]

\* The frame handleWebSocket writes for an EVENT frame whose second element
\* decodes to this event.
ServedEventReply(event) ==
    IF ~ValidateEvent(event)
      THEN ServedNotice("Error processing message: invalid event: ID or signature verification failed")
      ELSE OkFrame(event.id)

\* The frame handleWebSocket writes for a frame it has read.
ServedReply(raw) ==
    IF ~raw.json THEN ServedNotice("Error processing message: invalid JSON")
    ELSE IF Len(raw.elems) < 1 THEN ServedNotice("Error: Invalid message format")
    ELSE IF ~IsString(raw.elems[1]) THEN ServedNotice("Error: Invalid message type")
    ELSE IF raw.elems[1].v = "EVENT"
      THEN IF Len(raw.elems) < 2 THEN ServedNotice("Error: Invalid EVENT message format")
           ELSE IF ~IsObject(raw.elems[2]) THEN ServedNotice("Error processing EVENT")
           ELSE ServedEventReply(ZeroEvent)
    ELSE IF raw.elems[1].v = "REQ"
      THEN ServedNotice("Subscription received but not implemented")
    ELSE IF raw.elems[1].v = "CLOSE" THEN ServedNotice("Subscription closed")
    ELSE ServedNotice("Unknown message type")

ServedInit ==
    /\ InitRelay
    /\ match = NoMatch
    /\ call = [conn |-> "open", out |-> << >>]

\* One round of the loop: ReadMessage returns a frame, its answer is written.
ServedRead(raw) ==
    /\ call.conn = "open"
    /\ Len(call.out) < MaxFrames
    /\ call' = [call EXCEPT !.out = Append(@, ServedReply(raw))]
    /\ UNCHANGED <<clients, mutex, hub, events, storeLock, subscriptions, pc,
                   cur, scan, wr, bc, wire, stalled, broken, budget, nextGen, hist, match>>

\* One round of the loop with an EVENT frame that holds an event.
ServedEvent(event) ==
    /\ call.conn = "open"
    /\ Len(call.out) < MaxFrames
    /\ call' = [call EXCEPT !.out = Append(@, ServedEventReply(event))]
    /\ UNCHANGED <<clients, mutex, hub, events, storeLock, subscriptions, pc,
                   cur, scan, wr, bc, wire, stalled, broken, budget, nextGen, hist, match>>

\* ReadMessage returns an error: the loop ends and the connection is closed.
ServedReadError ==
    /\ call.conn = "open"
    /\ call' = [call EXCEPT !.conn = "closed"]
    /\ UNCHANGED <<clients, mutex, hub, events, storeLock, subscriptions, pc,
                   cur, scan, wr, bc, wire, stalled, broken, budget, nextGen, hist, match>>

ServedNext ==
    \/ ServedReadError
    \/ \E raw \in ServedFrames : ServedRead(raw)
    \/ \E e \in Events : ServedEvent(e)

ServedSpec == ServedInit /\ [][ServedNext]_vars

\* C26: an event the served endpoint has answered with ["OK", id, true, ""]
\* is in the event store under its id.
ServedOkIsStored ==
    \A i \in 1..Len(call.out) :
        (call.out[i].type = "OK" /\ call.out[i].accepted) => Exists(call.out[i].id)

(***************************************************************************)
(* The client library.  Cosanostra.Event.parse_metadata decodes the        *)
(* content of a kind-0 event.  A content is a text that is JSON or not; if *)
(* it is, it is an object, given as the map from its keys to its values.   *)
(***************************************************************************)
NoMap == [k \in {} |-> 0]

MetaMaps ==
    {[k \in ks |-> CASE k = "name" -> "Test User"
                     [] k = "about" -> "This is a test"
                     [] k = "event_id" -> "old_id"
                     [] OTHER -> 0] :
        ks \in SUBSET {"name", "about", "event_id"}}
      \cup {[k \in {"name", "created_at"} |->
                 IF k = "name" THEN "Test User" ELSE t] : t \in {5, 10}}

MetaContents == {[json |-> FALSE, map |-> NoMap]} \cup {[json |-> TRUE, map |-> m] : m \in MetaMaps}

MetaEvents ==
    [id : {"test_id_123", "test_id_456"}, pubkey : {"test_pubkey_456"},
     created_at : {10, 20}, kind : {0, 1, 3}, content : MetaContents]

\* Jason.decode(content)
JasonDecode(content) ==
    IF content.json THEN [ok |-> TRUE, value |-> content.map, error |-> ""]
    ELSE [ok |-> FALSE, value |-> NoMap, error |-> "Jason.DecodeError"]

parse_metadata(event) ==
    IF event.kind = 0
      THEN LET decoded == JasonDecode(event.content)
           IN  IF decoded.ok THEN [ok |-> TRUE, value |-> decoded.value, error |-> ""]
               ELSE decoded
      ELSE [ok |-> FALSE, value |-> NoMap, error |-> "Not a metadata event"]

\* No call has returned.
NoResult == [ok |-> FALSE, value |-> NoMap, error |-> ""]

MetadataInit ==
    /\ InitRelay
    /\ match = NoMatch
    /\ call \in [event : MetaEvents, done : {FALSE}, result : {NoResult}]

MetadataApply ==
    /\ ~call.done
    /\ call' = [call EXCEPT !.done = TRUE, !.result = parse_metadata(call.event)]
    /\ UNCHANGED <<clients, mutex, hub, events, storeLock, subscriptions, pc,
                   cur, scan, wr, bc, wire, stalled, broken, budget, nextGen, hist, match>>

MetadataSpec == MetadataInit /\ [][MetadataApply]_vars

\* C27: parse_metadata of a kind-0 event whose content is JSON returns ok with
\* a profile that has the fields of the content, created_at equal to the
\* event's created_at and event_id equal to the event's id; of any other
\* event it returns an error.
MetadataEnriched ==
    call.done =>
        IF call.event.kind = 0 /\ call.event.content.json
          THEN /\ call.result.ok
               /\ \A k \in DOMAIN call.event.content.map \ {"created_at", "event_id"} :
                      /\ k \in DOMAIN call.result.value
                      /\ call.result.value[k] = call.event.content.map[k]
               /\ "created_at" \in DOMAIN call.result.value
               /\ call.result.value["created_at"] = call.event.created_at
               /\ "event_id" \in DOMAIN call.result.value
               /\ call.result.value["event_id"] = call.event.id
          ELSE ~call.result.ok

(***************************************************************************)
(* Cosanostra.Utils.  An argument is a string or another term.  A string   *)
(* is given by its kind (hex digits, an npub, other text), the key it      *)
(* writes (named by its first hex digits), the case of its letters and its *)
(* length in bytes.  The source holds two definitions of the module: one   *)
(* with a table of keys, one that calls the Bech32 package.                *)
(***************************************************************************)
TableKeys == {"5aa5e38a", "82341f88", "a7ecf96b", "7e7e9c42"}
OtherKeys == {"11111111", "abcdef01"}
Cases == {"lower", "upper", "mixed"}

Term(t, key, case, len) == [t |-> t, key |-> key, case |-> case, len |-> len]
Hex(key) == Term("hex", key, "lower", 64)
Npub(key) == Term("npub", key, "lower", 63)
NoTerm == Term("nil", "", "lower", 0)

\* The cases a string of hex digits with this key can be written in: one
\* without letters has one.
CasesOf(key) == IF key = "11111111" THEN {"lower"} ELSE Cases

KeyInputs ==
    UNION {{Term("hex", k, c, n) : c \in CasesOf(k), n \in {64, 4, 65}} :
              k \in TableKeys \cup OtherKeys}
      \cup {Npub(k) : k \in TableKeys \cup {"abcdef01"}}
      \cup {Term("npub", "invalidformat", "lower", 18)}
      \cup {Term("text", "not_a_key", "lower", 9), Term("text", "", "lower", 0),
            Term("text", "zzzzzzzz", "lower", 64), Term("text", "zzzzzzzz", "upper", 64)}
      \cup {NoTerm, Term("int", "123", "lower", 0)}

IsBinary(x) == x.t \in {"hex", "npub", "text"}
\* "npub" <> _
IsNpubPrefixed(x) == x.t = "npub"
\* byte_size(x) == 64 in a guard: false for a term that is no string.
ByteSize64(x) == IsBinary(x) /\ x.len = 64
\* String.downcase
Downcase(x) == [x EXCEPT !.case = "lower"]
\* Base.decode16(x, case: :mixed) returns {:ok, _}: hex digits of either case,
\* an even number of them.
Decode16Ok(x) == IsBinary(x) /\ (x.t = "hex" \/ x.len = 0) /\ x.len % 2 = 0

KeyOk(value) == [ok |-> TRUE, value |-> value, error |-> "", raised |-> FALSE]
KeyError(message) == [ok |-> FALSE, value |-> NoTerm, error |-> message, raised |-> FALSE]
KeyRaise(exception) == [ok |-> FALSE, value |-> NoTerm, error |-> exception, raised |-> TRUE]

\* The definitions with the table.
npub_to_hex(x) ==
    IF IsNpubPrefixed(x) /\ x \in {Npub(k) : k \in TableKeys} THEN KeyOk(Hex(x.key))
    ELSE IF IsNpubPrefixed(x)
      THEN KeyError("Unsupported npub key. This implementation only supports known test keys.")
    ELSE KeyError("Not an npub format")

RECURSIVE hex_to_npub(_)
hex_to_npub(x) ==
    IF x \in {Hex(k) : k \in TableKeys} THEN KeyOk(Npub(x.key))
    ELSE IF ByteSize64(x)
      THEN IF x # Downcase(x) THEN hex_to_npub(Downcase(x))
           ELSE KeyError("Unsupported hex key or invalid format. This implementation only supports known test keys.")
    ELSE KeyError("Unsupported hex key or invalid format. This implementation only supports known test keys.")

\* A normalisation that keeps the case of the hex digits.
normalize_keeping_case(x) ==
    IF IsNpubPrefixed(x) THEN npub_to_hex(x)
    ELSE IF ByteSize64(x)
      THEN IF Decode16Ok(x) THEN KeyOk(x) ELSE KeyError("Invalid hex format")
    ELSE KeyError("Invalid public key format")

normalize_pubkey(x) ==
    IF IsNpubPrefixed(x) THEN npub_to_hex(x)
    ELSE IF ByteSize64(x)
      THEN IF Decode16Ok(x) THEN KeyOk(Downcase(x)) ELSE KeyError("Invalid hex format")
    ELSE KeyError("Invalid public key format")

\* The definitions with the Bech32 package.  Of the npubs above, those of
\* a7ecf96b and 7e7e9c42 and the one cut short have no valid checksum.
Bech32Valid(x) == x.t = "npub" /\ x.len = 63 /\ x.key \in {"5aa5e38a", "82341f88", "abcdef01"}
\* Bech32.encode("npub", Bech32.convertbits(bytes, 8, 5, true))
Bech32Encode(x) == Term("npub", x.key, "lower", IF x.len = 64 THEN 63 ELSE 11 + x.len)

npub_to_hex_bech32(x) ==
    IF IsNpubPrefixed(x)
      THEN IF Bech32Valid(x) THEN KeyOk(Hex(x.key)) ELSE KeyError("Invalid npub")
    ELSE KeyError("Not an npub")

hex_to_npub_bech32(x) ==
    IF ~IsBinary(x) THEN KeyRaise("FunctionClauseError")
    ELSE IF Decode16Ok(x) THEN KeyOk(Bech32Encode(Downcase(x)))
    ELSE KeyError("Invalid hex format")

normalize_pubkey_bech32(x) ==
    IF IsNpubPrefixed(x) THEN npub_to_hex_bech32(x)
    ELSE IF ByteSize64(x)
      THEN IF Decode16Ok(x) THEN KeyOk(Downcase(x)) ELSE KeyError("Invalid hex format")
    ELSE KeyError("Invalid public key format")

Builds == {"table", "bech32"}
KeyFunctions == {"npub_to_hex", "hex_to_npub", "normalize_pubkey"}

\* The function of this name, of the definition of the module that is loaded.
KeyCall(build, fn, x) ==
    CASE fn = "npub_to_hex" ->
           IF build = "table" THEN npub_to_hex(x) ELSE npub_to_hex_bech32(x)
      [] fn = "hex_to_npub" ->
           IF build = "table" THEN hex_to_npub(x) ELSE hex_to_npub_bech32(x)
      [] fn = "normalize_pubkey" ->
           IF build = "table" THEN normalize_pubkey(x) ELSE normalize_pubkey_bech32(x)

KeyInit ==
    /\ InitRelay
    /\ match = NoMatch
    /\ call \in [build : Builds, fn : KeyFunctions, input : KeyInputs, done : {FALSE},
                 result : {KeyError("")}]

KeyApply ==
    /\ ~call.done
    /\ call' = [call EXCEPT !.done = TRUE,
                            !.result = KeyCall(call.build, call.fn, call.input)]
    /\ UNCHANGED <<clients, mutex, hub, events, storeLock, subscriptions, pc,
                   cur, scan, wr, bc, wire, stalled, broken, budget, nextGen, hist, match>>

KeySpec == KeyInit /\ [][KeyApply]_vars

\* The keys the tests of the round trip and of the normalisation name.
SupportedKeys == {"5aa5e38a", "82341f88"}

\* C28: npub_to_hex of the npub of a supported key returns a hex string of
\* which hex_to_npub returns that npub; hex_to_npub of a string of 64 hex
\* digits, in any case, that writes no key of the table returns an error tuple.
KeyRoundTrip ==
    call.done =>
        /\ (call.fn = "npub_to_hex" /\ call.input \in {Npub(k) : k \in SupportedKeys}) =>
              /\ call.result.ok
              /\ KeyCall(call.build, "hex_to_npub", call.result.value) = KeyOk(call.input)
        /\ (/\ call.fn = "hex_to_npub"
            /\ call.input.t = "hex" /\ call.input.len = 64
            /\ call.input.key \notin TableKeys) =>
              (~call.result.ok /\ ~call.result.raised)

MaxRelays == 2

GpContents ==
    { [json |-> TRUE, map |-> [k \in {"name"} |-> "Test User"]],
      [json |-> TRUE, map |-> [k \in {"about"} |-> "This is a test"]],
      [json |-> TRUE, map |-> [k \in {"name", "created_at"} |->
                                   IF k = "name" THEN "Test User" ELSE 5]],
      [json |-> FALSE, map |-> NoMap] }

GpEvents ==
    [id : {"test_id_123"}, pubkey : {"test_pubkey_456"}, created_at : {10, 20},
     kind : {0}, content : GpContents]

NoEvent ==
    [id |-> "", pubkey |-> "", created_at |-> 0, kind |-> 1,
     content |-> [json |-> FALSE, map |-> NoMap]]

GpAnswers ==
    {[kind |-> "event", event |-> e] : e \in GpEvents}
      \cup {[kind |-> "not_found", event |-> NoEvent], [kind |-> "timeout", event |-> NoEvent]}

GpRelays == [connects : BOOLEAN, answer : GpAnswers]

\* get_profile(client, pubkey, timeout), as Task.yield_many gives it: the
\* result of process_profile_events, or nothing.
get_profile(relay) ==
    CASE relay.answer.kind = "event" -> parse_metadata(relay.answer.event)
      [] relay.answer.kind = "not_found" -> [ok |-> FALSE, value |-> NoMap, error |-> "not_found"]
      [] OTHER -> [ok |-> FALSE, value |-> NoMap, error |-> "timeout"]

\* Map.put(map, key, value)
MapPut(map, key, value) ==
    [k \in DOMAIN map \cup {key} |-> IF k = key THEN value ELSE map[k]]

\* profile["created_at"] || 0
SortKey(profile) == IF "created_at" \in DOMAIN profile THEN profile["created_at"] ELSE 0

\* Enum.reduce(results, [], ...): the profiles of the results that are
\* {:ok, {:ok, profile}}, each put before those collected so far.
RECURSIVE Collect(_, _)
Collect(results, acc) ==
    IF results = << >> THEN acc
    ELSE Collect(Tail(results),
                 IF Head(results).ok
                   THEN <<MapPut(Head(results).value, "__relay_info", "Found profile")>> \o acc
                   ELSE acc)

\* Enum.sort_by(profiles, key, :desc) |> List.first(): the sort is stable, so
\* the first profile of the list with the greatest key.
LatestProfile(profiles) ==
    LET best == CHOOSE i \in 1..Len(profiles) :
                   /\ \A j \in 1..Len(profiles) : SortKey(profiles[j]) <= SortKey(profiles[i])
                   /\ \A j \in 1..(i - 1) : SortKey(profiles[j]) < SortKey(profiles[i])
    IN  profiles[best]

GpInit ==
    /\ InitRelay
    /\ match = NoMatch
    /\ call \in [relays : UNION {[1..n -> GpRelays] : n \in 1..MaxRelays},
                 exits : BOOLEAN, pc : {"connect"}, clients : {<< >>},
                 profiles : {<< >>}, open : {{}}, result : {NoResult}]

\* The indices, in order, of the relays of a sequence that connect.
RECURSIVE Connected(_, _)
Connected(relays, i) ==
    IF i > Len(relays) THEN << >>
    ELSE (IF relays[i].connects THEN <<i>> ELSE << >>) \o Connected(relays, i + 1)

\* Task.await_many of the connections; clients are those that succeeded.
GpConnect ==
    /\ call.pc = "connect"
    /\ LET cs == Connected(call.relays, 1)
       IN  call' = [call EXCEPT !.clients = cs,
                                !.open = {cs[i] : i \in 1..Len(cs)},
                                !.pc = IF cs = << >> THEN "none" ELSE "fetch"]
    /\ UNCHANGED <<clients, mutex, hub, events, storeLock, subscriptions, pc,
                   cur, scan, wr, bc, wire, stalled, broken, budget, nextGen, hist, match>>

\* if clients == []: {:error, :no_relays_connected}
GpNone ==
    /\ call.pc = "none"
    /\ call' = [call EXCEPT !.result = [ok |-> FALSE, value |-> NoMap,
                                        error |-> "no_relays_connected"],
                            !.pc = "close"]
    /\ UNCHANGED <<clients, mutex, hub, events, storeLock, subscriptions, pc,
                   cur, scan, wr, bc, wire, stalled, broken, budget, nextGen, hist, match>>

\* Task.yield_many of get_profile on every client, and the reduce.
GpFetch ==
    /\ call.pc = "fetch"
    /\ call' = [call EXCEPT
                  !.profiles = Collect([i \in 1..Len(call.clients) |->
                                           get_profile(call.relays[call.clients[i]])], << >>),
                  !.pc = "select"]
    /\ UNCHANGED <<clients, mutex, hub, events, storeLock, subscriptions, pc,
                   cur, scan, wr, bc, wire, stalled, broken, budget, nextGen, hist, match>>

\* case profiles do [] -> {:error, :not_found}; profiles -> {:ok, latest_profile}
GpSelect ==
    /\ call.pc = "select"
    /\ call' = [call EXCEPT
                  !.result = IF call.profiles = << >>
                               THEN [ok |-> FALSE, value |-> NoMap, error |-> "not_found"]
                               ELSE [ok |-> TRUE, value |-> LatestProfile(call.profiles),
                                     error |-> ""],
                  !.pc = "close"]
    /\ UNCHANGED <<clients, mutex, hub, events, storeLock, subscriptions, pc,
                   cur, scan, wr, bc, wire, stalled, broken, budget, nextGen, hist, match>>

\* after: Enum.each(clients, &Relay.close/1), which is Process.exit(client,
\* :normal).  A process that does not trap exits ignores an exit signal of
\* reason :normal; whether the client process ends is the WebSockex package's.
GpClose ==
    /\ call.pc = "close"
    /\ call' = [call EXCEPT !.open = IF call.exits THEN {} ELSE @, !.pc = "done"]
    /\ UNCHANGED <<clients, mutex, hub, events, storeLock, subscriptions, pc,
                   cur, scan, wr, bc, wire, stalled, broken, budget, nextGen, hist, match>>

GpNext == GpConnect \/ GpNone \/ GpFetch \/ GpSelect \/ GpClose

GpSpec == GpInit /\ [][GpNext]_vars

\* The relays that connected and from whose event get_profile parsed a profile.
Fetched ==
    {i \in 1..Len(call.relays) :
        /\ call.relays[i].connects
        /\ call.relays[i].answer.kind = "event"
        /\ call.relays[i].answer.event.content.json}

\* C30: get_profile_from_relays returns no_relays_connected if no relay
\* connected, not_found if no connected relay gave a profile, and otherwise
\* the profile of an event whose created_at is the greatest of the events
\* profiles were fetched from; every connection is closed when it returns.
LatestProfileReturned ==
    call.pc = "done" =>
        /\ call.open = {}
        /\ IF \A i \in 1..Len(call.relays) : ~call.relays[i].connects
             THEN ~call.result.ok /\ call.result.error = "no_relays_connected"
           ELSE IF Fetched = {}
             THEN ~call.result.ok /\ call.result.error = "not_found"
           ELSE /\ call.result.ok
                /\ \E i \in Fetched :
                      /\ \A j \in Fetched : call.relays[j].answer.event.created_at
                                              <= call.relays[i].answer.event.created_at
                      /\ \A k \in DOMAIN call.relays[i].answer.event.content.map \ {"created_at"} :
                            /\ k \in DOMAIN call.result.value
                            /\ call.result.value[k] = call.relays[i].answer.event.content.map[k]
                      /\ DOMAIN call.result.value \ {"created_at", "event_id", "__relay_info"}
                            \subseteq DOMAIN call.relays[i].answer.event.content.map

\* C31: an event in the store that matches a subscription a connected client
\* holds has been written to the client for that subscription, by the scan of
\* its REQ or by a broadcast, once the REQ has written its EOSE and the
\* broadcast of the event has returned.
NoEventLost ==
    \A c \in Clients : \A x \in InstalledOn(c) : \A e \in events :
        (/\ ~Gone(c)
         /\ AnyFilterMatches(e, subscriptions[c][x[2]].req)
         /\ \E i \in 1..Len(wire[c]) : wire[c][i] = EoseFrame(x[2], x[3])
         /\ e.id \in hist.bdone) =>
            \/ EventFramesFor(c, x[2], x[3], e.id, TRUE) # {}
            \/ EventFramesFor(c, x[2], x[3], e.id, FALSE) # {}

\* C32: while BroadcastEvent ranges over the subscriptions of a client, no
\* step adds a subscription to them or removes one from them.
RegistryExclusive ==
    [][ \A d \in Clients :
           (bc.client = d /\ bc'.client = d) => subscriptions'[d] = subscriptions[d]
      ]_vars

\* C33: a task that is inside a socket write of BroadcastEvent holds no lock
\* of a registry: relay.mutex is free of it.
NoLockAcrossWrite ==
    \A t \in Clients :
        (pc[t] = "write" /\ wr[t].ret = "bcast") => mutex # t

(***************************************************************************)
(* EventStore on its own, with Add and Query in the steps of their code:   *)
(* the lock is taken, the map is read or written entry by entry, the lock  *)
(* is released.  The handler tasks call it; call holds the map, the state  *)
(* of store.mutex (a writer, a number of readers) and what each task is    *)
(* doing.                                                                  *)
(***************************************************************************)
MaxStoreOps == 4

StoreEvents == {E1, E2}
StoreFilters == {DecodeFilter(fAll), DecodeFilter(fKind1)}

StoreIdle ==
    [pc |-> "idle", event |-> E1, filter |-> DecodeFilter(fAll), snap |-> {}, seen |-> {},
     results |-> << >>, returned |-> FALSE]

\* An RLock that does not wait for the writer.
RLockAlways(rw) == TRUE
\* store.mutex.RLock() can return: no writer holds the lock.
CanRLock(rw) == ~rw.writer
\* store.mutex.Lock() can return: nobody holds the lock.
CanLock(rw) == ~rw.writer /\ rw.readers = 0

StoreInit ==
    /\ InitRelay
    /\ match = NoMatch
    /\ call = [store |-> {}, rw |-> [writer |-> FALSE, readers |-> 0],
               ops |-> 0, task |-> [t \in Clients |-> StoreIdle]]

StoreUnchanged ==
    UNCHANGED <<clients, mutex, hub, events, storeLock, subscriptions, pc,
                cur, scan, wr, bc, wire, stalled, broken, budget, nextGen, hist, match>>

\* Add: store.mutex.Lock()
StoreAddLock(t, event) ==
    /\ call.task[t].pc = "idle"
    /\ call.ops < MaxStoreOps
    /\ CanLock(call.rw)
    /\ call' = [call EXCEPT !.rw.writer = TRUE, !.ops = @ + 1,
                            !.task[t] = [StoreIdle EXCEPT !.pc = "add_check", !.event = event]]
    /\ StoreUnchanged

\* Add: if _, exists := store.events[event.ID]; exists { return false }
StoreAddCheck(t) ==
    /\ call.task[t].pc = "add_check"
    /\ call' = [call EXCEPT
                  !.task[t].pc = IF \E e \in call.store : e.id = call.task[t].event.id
                                   THEN "add_unlock" ELSE "add_insert"]
    /\ StoreUnchanged

\* Add: store.events[event.ID] = event
StoreAddInsert(t) ==
    /\ call.task[t].pc = "add_insert"
    /\ call' = [call EXCEPT !.store = @ \cup {call.task[t].event},
                            !.task[t].pc = "add_unlock",
                            !.task[t].returned = TRUE]
    /\ StoreUnchanged

\* Add: the deferred store.mutex.Unlock()
StoreAddUnlock(t) ==
    /\ call.task[t].pc = "add_unlock"
    /\ call' = [call EXCEPT !.rw.writer = FALSE, !.task[t].pc = "idle"]
    /\ StoreUnchanged

\* Query: store.mutex.RLock(), and the range over store.events begins.
StoreQueryRLock(t, filter) ==
    /\ call.task[t].pc = "idle"
    /\ call.ops < MaxStoreOps
    /\ CanRLock(call.rw)
    /\ call' = [call EXCEPT !.rw.readers = @ + 1, !.ops = @ + 1,
                            !.task[t] = [StoreIdle EXCEPT !.pc = "range", !.filter = filter,
                                                          !.snap = call.store]]
    /\ StoreUnchanged

\* Query: the range produces its next entry, which is appended if it matches.
\* An entry created during the range may be produced or skipped.
StoreQueryRange(t) ==
    /\ call.task[t].pc = "range"
    /\ \E e \in call.store \ call.task[t].seen :
          call' = [call EXCEPT
                     !.task[t].seen = @ \cup {e},
                     !.task[t].results = IF MatchesFilter(e, call.task[t].filter)
                                           THEN Append(@, e) ELSE @]
    /\ StoreUnchanged

\* Query: the range ends, having produced every entry it began with; the
\* deferred store.mutex.RUnlock(), and the results are returned.
StoreQueryReturn(t) ==
    /\ call.task[t].pc = "range"
    /\ call.task[t].snap \subseteq call.task[t].seen
    /\ call' = [call EXCEPT !.rw.readers = @ - 1,
                            !.task[t].pc = "idle", !.task[t].returned = TRUE]
    /\ StoreUnchanged

StoreNext ==
    \E t \in Clients :
        \/ \E e \in StoreEvents : StoreAddLock(t, e)
        \/ StoreAddCheck(t)
        \/ StoreAddInsert(t)
        \/ StoreAddUnlock(t)
        \/ \E f \in StoreFilters : StoreQueryRLock(t, f)
        \/ StoreQueryRange(t)
        \/ StoreQueryReturn(t)

StoreSpec == StoreInit /\ [][StoreNext]_vars

\* The tasks inside Add, and those inside Query.
StoreWriters == {t \in Clients : call.task[t].pc \in {"add_check", "add_insert", "add_unlock"}}
StoreReaders == {t \in Clients : call.task[t].pc = "range"}

\* C34: at most one task is inside Add, and none is inside Query meanwhile;
\* the store does not change while a Query ranges over it, and the Query
\* returns each event of the store that matches its filter, once: the
\* matching events of the store as it was when the Query began and as it is
\* when the Query returns.
AddAtomicForQuery ==
    /\ [](/\ Cardinality(StoreWriters) <= 1
          /\ StoreWriters # {} => StoreReaders = {})
    /\ [][ \A t \in Clients :
              /\ (call.task[t].pc = "range" /\ call'.task[t].pc = "range") =>
                    call'.store = call.store
              /\ (call.task[t].pc = "range" /\ call'.task[t].pc = "idle") =>
                    LET matching == {e \in call.store : MatchesFilter(e, call.task[t].filter)}
                    IN  /\ call.store = call.task[t].snap
                        /\ Range(call.task[t].results) = matching
                        /\ Len(call.task[t].results) = Cardinality(matching)
       ]_vars

\* C34, its case: two Queries range over the store at once, the store
\* holding two events of which one was added after a Query had returned.
ReadersOverlap ==
    /\ StoreReaders = Clients
    /\ call.store = {E1, E2}
    /\ call.rw.readers = 2
    /\ \A t \in Clients : call.task[t].seen # {}

\* The handler of connection c has nothing of a frame left to do.
HandlerQuiescent(c) ==
    /\ wr[c] = NoWrite
    /\ cur[c] = NoFrame
    /\ scan[c] = NoScan
    /\ storeLock # c
    /\ mutex # c

\* The frames on the socket of c that answer its REQs, by position.
ScanReplies(c) ==
    {i \in 1..Len(wire[c]) :
        \/ wire[c][i].type = "EOSE"
        \/ wire[c][i].type = "EVENT" /\ ~wire[c][i].live}

\* C35: when the read loop of a connection is at ReadMessage, the handler
\* has finished the frame before: no write, Add, scan or broadcast of its
\* own is under way.  Every reply frame is written by the handler of the
\* connection it is written to, for the frame that handler is processing;
\* and on the socket the answers to the connection's REQs stand in the order
\* of the REQs, the events of a scan before its EOSE.
FramesInOrder ==
    /\ [](\A c \in Clients :
            /\ pc[c] = "read" => HandlerQuiescent(c)
            /\ \A i, j \in ScanReplies(c) :
                  i < j => /\ wire[c][i].gen <= wire[c][j].gen
                           /\ ~(/\ wire[c][i].type = "EOSE"
                                /\ wire[c][i].gen = wire[c][j].gen))
    /\ [][ \A c \in Clients :
              Len(wire'[c]) > Len(wire[c]) =>
                  LET f == wire'[c][Len(wire'[c])]
                  IN  \/ f.type = "EVENT" /\ f.live
                      \/ /\ pc[c] = "write"
                         /\ wr[c].to = c
                         /\ wr[c].frame = f
                         /\ wr[c].ret \in {"read", "req_scan"}
                         /\ f.type = "OK" =>
                               cur[c].type = "EVENT" /\ f.id = cur[c].event.id
                         /\ f.type \in {"EOSE", "EVENT"} =>
                               /\ cur[c].type = "REQ"
                               /\ f.sub = cur[c].sub
                               /\ f.gen = scan[c].gen
                         /\ f.type = "NOTICE" => cur[c] = NoFrame
       ]_vars

\* C35, its case: a connection has sent an EVENT and then a REQ, both are
\* answered (OK, then the stored event, then EOSE) and the loop reads again.
RepliesOfTwoFrames ==
    /\ pc["c1"] = "read"
    /\ Len(wire["c1"]) = 3
    /\ wire["c1"][1].type = "OK"
    /\ wire["c1"][2].type = "EVENT" /\ ~wire["c1"][2].live
    /\ wire["c1"][3].type = "EOSE"

\* C36: a frame that handleMessage answers with a NOTICE leaves the
\* subscriptions of the connection as they were: a subscription installed
\* under the id a rejected REQ names is still installed, with its filters.
RejectedReqKeepsRegistry ==
    [][ \A c \in Clients :
           hist'.bad[c] > hist.bad[c] => subscriptions'[c] = subscriptions[c]
      ]_vars

\* C37: on the socket of a connection, the scan of one REQ (one installation
\* of a subscription id) has written each event at most once.
ScanWritesOnce ==
    \A c \in Clients : \A sub \in SubIDs : \A gen \in 1..MaxFrames : \A id \in EventIDs :
        Cardinality(EventFramesFor(c, sub, gen, id, FALSE)) <= 1

\* An EVENT frame for connection d carries a stored event that matches a
\* filter of the REQ the frame answers, a REQ that d has sent.
FrameJustified(d, f) ==
    /\ f.sub \in SubIDs
    /\ f.gen \in 1..(nextGen[d] - 1)
    /\ \E e \in events : e.id = f.id /\ AnyFilterMatches(e, f.req)

\* C38: every EVENT frame on a socket, and every one a task is writing,
\* carries an event of the store that matches a filter of a subscription
\* the receiving connection has installed under the id the frame names; at
\* the moment a task begins to write the frame, that subscription is the one
\* installed under the id.
OnlyRequestedEvents ==
    /\ [](/\ \A c \in Clients : \A i \in 1..Len(wire[c]) :
                wire[c][i].type = "EVENT" => FrameJustified(c, wire[c][i])
          /\ \A t \in Clients :
                (pc[t] = "write" /\ wr[t].frame.type = "EVENT") =>
                    FrameJustified(wr[t].to, wr[t].frame))
    /\ [][ \A t \in Clients :
              (pc[t] # "write" /\ pc'[t] = "write" /\ wr'[t].frame.type = "EVENT") =>
                  LET f == wr'[t].frame
                      d == wr'[t].to
                  IN  /\ f.sub \in DOMAIN subscriptions[d]
                      /\ subscriptions[d][f.sub].gen = f.gen
                      /\ subscriptions[d][f.sub].req = f.req
                      /\ f.live => (d \in clients /\ mutex = t)
                      /\ ~f.live => d = t
       ]_vars

\* C38, its case: a socket carries an event written by a scan and an event
\* written by a broadcast.
ScanAndBroadcastFrames ==
    \E i, j \in 1..Len(wire["c1"]) :
        /\ wire["c1"][i].type = "EVENT" /\ wire["c1"][i].live
        /\ wire["c1"][j].type = "EVENT" /\ ~wire["c1"][j].live

(***************************************************************************)
(* The relay with sockets whose writes return, Run looping, and the        *)
(* fairness of the Go scheduler: a task that can take a step of the        *)
(* program takes it.  No frame has to arrive, no peer has to close.        *)
(***************************************************************************)
NextHub ==
    \/ RunRegister
    \/ RunUnregister
    \/ \E c \in Clients :
          \/ Register(c)
          \/ ReadError(c)
          \/ Unregister(c)
          \/ ReadEvent(c, E1)
          \/ AddInsert(c)
          \/ BcastLock(c)
          \/ BcastClient(c)
          \/ BcastSub(c)
          \/ BcastClientDone(c)
          \/ BcastDone(c)
          \/ ReadReq(c, "s1", <<fAll>>)
          \/ ReqAdd(c)
          \/ ReqQuery(c)
          \/ ReqSend(c)
          \/ ReqEose(c)
          \/ WriteReturns(c)

HubSpec == Init /\ [][NextHub]_vars /\ Fairness

\* A task of the relay is at a point where it waits for another: a send on
\* a channel of the hub, a Lock of relay.mutex, a write.
Waiting ==
    \/ hub.pc # "select"
    \/ \E c \in Clients : pc[c] \in {"connect", "unregister", "bcast_lock", "bcast", "write"}

\* C39: the send on the register channel of every new connection is
\* received, the send on the unregister channel of every connection whose
\* read loop has ended is received, Run comes back to its select and takes
\* the connection into, or out of, relay.clients, a handler waiting for
\* relay.mutex gets it; and whenever a task waits, some task of the relay
\* can take a step.
HubLifecycle ==
    /\ \A c \in Clients :
          /\ (pc[c] = "connect") ~> (c \in hist.regd)
          /\ (pc[c] = "unregister") ~> (pc[c] = "closed" /\ c \in hist.unregd)
          /\ (pc[c] = "bcast_lock") ~> (mutex = c)
          /\ (mutex = c) ~> (mutex # c)
    /\ (hub.pc # "select") ~> (hub.pc = "select")
    /\ [](Waiting => ENABLED (RunRegister \/ RunUnregister \/ \E c \in Clients : Progress(c)))

\* C39, its case: one connection waits to send on the register channel and
\* another for relay.mutex, while Run, having received an unregister, waits
\* for the mutex a broadcaster holds.
HubContended ==
    /\ hub.pc = "unregister"
    /\ mutex # None
    /\ \E c \in Clients : pc[c] = "write" /\ mutex = c

(***************************************************************************)
(* Cosanostra.Relay, the connection process of the client library: its     *)
(* state is the map of subscription ids to lists of subscriber processes;  *)
(* it handles register_subscriber casts and text frames, one at a time.    *)
(* call holds that map, the mailbox of each subscriber process, whether    *)
(* the connection process is alive, and the number of messages handled.    *)
(***************************************************************************)
MaxRelayMsgs == 4

Procs == {"p1", "p2"}

\* Text frames as Jason.decode returns them.  An EVENT frame's third element
\* is an object with the seven keys ("full"), an object lacking some
\* ("partial") or not an object ("nonmap"); a NOTICE frame's message is a
\* string or an object.
Frame(t, sub, data) == [t |-> t, sub |-> sub, data |-> data]
RelayFrames ==
    {Frame("EVENT", sub, d) : sub \in SubIDs, d \in {"full", "partial", "nonmap"}}
        \cup {Frame("EOSE", sub, "") : sub \in SubIDs}
        \cup {Frame("NOTICE", "", d) : d \in {"string", "object"}}
        \cup {Frame("OTHER", "", ""), Frame("UNDECODABLE", "", "")}

\* Cosanostra.Event.from_map: the struct if every key is there, an error
\* tuple if not; no clause matches an argument that is not a map.
from_map(data) ==
    IF data = "nonmap" THEN "raise"
    ELSE IF data = "full" THEN "struct"
    ELSE "error"

\* "#{message}": String.Chars is not implemented for a map.
Interpolate(data) == IF data = "object" THEN "raise" ELSE "ok"

\* for subscriber <- subscribers, do: send(subscriber, msg)
RECURSIVE SendAll(_, _, _)
SendAll(mbox, subscribers, msg) ==
    IF subscribers = << >> THEN mbox
    ELSE SendAll([mbox EXCEPT ![Head(subscribers)] = Append(@, msg)], Tail(subscribers), msg)

\* Map.get(state.subscriptions, subscription_id): nil if there is no entry.
forward_to_subscribers(state, mbox, subscription_id, event) ==
    IF subscription_id \notin DOMAIN state THEN mbox
    ELSE SendAll(mbox, state[subscription_id], <<"event", subscription_id, event>>)

forward_eose_to_subscribers(state, mbox, subscription_id) ==
    IF subscription_id \notin DOMAIN state THEN mbox
    ELSE SendAll(mbox, state[subscription_id], <<"eose", subscription_id>>)

\* handle_frame({:text, msg}, state): the mailboxes after it, and whether it
\* returned {:ok, state} or raised.
handle_frame(frame, state, mbox) ==
    IF frame.t = "EVENT"
      THEN IF from_map(frame.data) = "raise" THEN [mbox |-> mbox, raised |-> TRUE]
           ELSE IF from_map(frame.data) = "struct"
             THEN [mbox |-> forward_to_subscribers(state, mbox, frame.sub, frame.data),
                   raised |-> FALSE]
           ELSE [mbox |-> mbox, raised |-> FALSE]
    ELSE IF frame.t = "EOSE"
      THEN [mbox |-> forward_eose_to_subscribers(state, mbox, frame.sub), raised |-> FALSE]
    ELSE IF frame.t = "NOTICE"
      THEN [mbox |-> mbox, raised |-> Interpolate(frame.data) = "raise"]
    ELSE [mbox |-> mbox, raised |-> FALSE]

\* handle_cast({:register_subscriber, subscription_id, subscriber}, state):
\* Map.update with [subscriber] or [subscriber | subscribers].
handle_cast(state, subscription_id, subscriber) ==
    [s \in (DOMAIN state) \cup {subscription_id} |->
        IF s # subscription_id THEN state[s]
        ELSE IF s \in DOMAIN state THEN <<subscriber>> \o state[s]
        ELSE <<subscriber>>]

RelayInit ==
    /\ InitRelay
    /\ match = NoMatch
    /\ call = [state |-> << >>, mbox |-> [p \in Procs |-> << >>], alive |-> TRUE,
               msgs |-> 0, last |-> Frame("NONE", "", "")]

RelayUnchanged ==
    UNCHANGED <<clients, mutex, hub, events, storeLock, subscriptions, pc,
                cur, scan, wr, bc, wire, stalled, broken, budget, nextGen, hist, match>>

\* The connection process takes a register_subscriber cast from its mailbox.
RelayCast(subscription_id, subscriber) ==
    /\ call.alive
    /\ call.msgs < MaxRelayMsgs
    /\ call' = [call EXCEPT !.state = handle_cast(@, subscription_id, subscriber),
                            !.msgs = @ + 1,
                            !.last = Frame("CAST", subscription_id, subscriber)]
    /\ RelayUnchanged

\* The connection process takes a text frame; an exception in the callback
\* ends the process.
RelayFrame(frame) ==
    /\ call.alive
    /\ call.msgs < MaxRelayMsgs
    /\ LET r == handle_frame(frame, call.state, call.mbox)
       IN  call' = [call EXCEPT !.mbox = r.mbox,
                                !.alive = ~r.raised,
                                !.msgs = @ + 1,
                                !.last = frame]
    /\ RelayUnchanged

RelayNext ==
    \/ \E s \in SubIDs, p \in Procs : RelayCast(s, p)
    \/ \E f \in RelayFrames : RelayFrame(f)

RelaySpec == RelayInit /\ [][RelayNext]_vars

\* The processes registered for a subscription id.
RegisteredFor(sub) ==
    IF sub \in DOMAIN call.state THEN Range(call.state[sub]) ELSE {}

\* C40: a text frame leaves the connection process alive and its
\* subscriptions as they were; an EVENT frame whose event has every field
\* appends one {:event, S, event}, and an EOSE frame one {:eose, S}, to the
\* mailbox of each process registered for S, and to no other; every other
\* frame leaves the mailboxes as they were.
FramesForwardedOnce ==
    [][ (call'.msgs > call.msgs /\ call'.last.t # "CAST") =>
           LET f == call'.last
               msg == IF f.t = "EVENT" THEN <<"event", f.sub, f.data>> ELSE <<"eose", f.sub>>
               forwarded == (f.t = "EVENT" /\ f.data = "full") \/ f.t = "EOSE"
           IN  /\ call'.alive
               /\ call'.state = call.state
               /\ \A p \in Procs :
                     call'.mbox[p] =
                        IF forwarded /\ p \in RegisteredFor(f.sub)
                          THEN Append(call.mbox[p], msg)
                          ELSE call.mbox[p]
      ]_vars

====
